---------------------------- MODULE Spec2Model ----------------------------
(***************************************************************************)
(* Vertex-particle components of three-cv (Particles.tsx, LightArray.tsx). *)
(*                                                                         *)
(* Numbers.  JavaScript numbers and Float32Array cells are modelled in     *)
(* fixed point: the integer n stands for n / F.  A result is rounded to    *)
(* the nearest unit where the code stores it.  NaN stands for the value an *)
(* arithmetic expression takes once it has read `undefined` (a typed-array *)
(* read past the end) or has left the range of a Float32Array cell.        *)
(***************************************************************************)
EXTENDS Integers, Sequences, FiniteSets, TLC

\* ------------------------------------------------------------------------
\* Bounds of the model
\* ------------------------------------------------------------------------
MaxVerts == 3        \* vertices per leaf primitive in the extraction sweep
MaxRate == 3         \* largest sampleRate tried
MaxEvents == 3       \* frames and prop changes of one run

\* ------------------------------------------------------------------------
\* Arithmetic
\* ------------------------------------------------------------------------
F == 1000

NaN == -999999999

Abs(x) == IF x < 0 THEN -x ELSE x

\* x / y rounded to the nearest integer (y > 0), halves away from zero
RoundDiv(x, y) ==
  IF x >= 0 THEN (2 * x + y) \div (2 * y) ELSE -((2 * (-x) + y) \div (2 * y))

CeilDiv(x, y) == (x + y - 1) \div y

\* posArray[i] with a 0-based index; reading past the end yields undefined
At(arr, i) == IF i >= 0 /\ i < Len(arr) THEN arr[i + 1] ELSE NaN

\* arr[i] = v on a typed array: a write past the end is ignored
Put(arr, i, v) == IF i >= 0 /\ i < Len(arr) THEN [arr EXCEPT ![i + 1] = v] ELSE arr

Zeros(n) == [i \in 1..n |-> 0]

RECURSIVE SumSeq(_)
SumSeq(s) == IF s = <<>> THEN 0 ELSE Head(s) + SumSeq(Tail(s))

\* ------------------------------------------------------------------------
\* Scene graph: the Object3D trees handed to the components as `object`
\* ------------------------------------------------------------------------
Nodes == 1..7

Kind(n) ==
  CASE n = 1 -> "Group"
    [] n = 2 -> "Mesh"
    [] n = 3 -> "SkinnedMesh"
    [] n = 4 -> "Mesh"
    [] n = 5 -> "SkinnedMesh"
    [] n = 6 -> "Group"
    [] n = 7 -> "Mesh"

Children(n) ==
  CASE n = 1 -> <<2, 3>>
    [] n = 2 -> <<4>>
    [] n = 6 -> <<7>>
    [] OTHER -> <<>>

\* node 7 is a Mesh whose geometry has no position attribute
HasPosition(n) == n \in {2, 3, 4, 5}

IsMesh(n) == Kind(n) \in {"Mesh", "SkinnedMesh"}

IsSkinnedMesh(n) == Kind(n) = "SkinnedMesh"

\* the objects a parent passes as the `object` prop
Roots == {1, 5, 6}

\* Object3D.traverse: the node itself, then each child's subtree in order
RECURSIVE Traverse(_)
RECURSIVE TraverseAll(_)
Traverse(n) == <<n>> \o TraverseAll(Children(n))
TraverseAll(cs) == IF cs = <<>> THEN <<>> ELSE Traverse(Head(cs)) \o TraverseAll(Tail(cs))

MeshNodes == {n \in Nodes : IsMesh(n) /\ HasPosition(n)}

MeshesUnder(r) == {n \in MeshNodes : \E i \in 1..Len(Traverse(r)) : Traverse(r)[i] = n}

\* ------------------------------------------------------------------------
\* Vertex extraction (the effect on [object, sampleRate])
\* ------------------------------------------------------------------------
\* for (let i = 0; i < posArray.length; i += 3 * sampleRate) push(x, y, z)
RECURSIVE SampleLoop(_, _, _, _)
RECURSIVE SampleEveryVertex(_, _, _, _)
\* mutant: the stride is one vertex whatever the sampleRate
SampleEveryVertex(posArray, i, rate, acc) ==
  IF i < Len(posArray)
  THEN SampleEveryVertex(posArray, i + 3, rate,
                         acc \o <<At(posArray, i), At(posArray, i + 1), At(posArray, i + 2)>>)
  ELSE acc

SampleLoop(posArray, i, rate, acc) ==
  IF i < Len(posArray)
  THEN SampleLoop(posArray, i + 3 * rate, rate,
                  acc \o <<At(posArray, i), At(posArray, i + 1), At(posArray, i + 2)>>)
  ELSE acc

\* mutant: the samples of a primitive are put in front of those collected so far
VisitChildInFront(st, child, geo, rate) ==
  IF IsMesh(child) /\ HasPosition(child)
  THEN LET got == SampleLoop(geo[child], 0, rate, <<>>)
           cnt == Len(got) \div 3
       IN [positions |-> got \o st.positions,
           originalPositions |-> got \o st.originalPositions,
           skinnedMeshData |-> st.skinnedMeshData,
           particleIndex |-> st.particleIndex + cnt]
  ELSE st

\* the callback of object.traverse, for one child
VisitChild(st, child, geo, rate) ==
  IF IsMesh(child) /\ HasPosition(child)
  THEN LET got == SampleLoop(geo[child], 0, rate, <<>>)
           cnt == Len(got) \div 3
           meshIndices == [j \in 1..cnt |-> st.particleIndex + j - 1]
       IN [positions |-> st.positions \o got,
           originalPositions |-> st.originalPositions \o got,
           skinnedMeshData |->
             IF IsSkinnedMesh(child) /\ cnt > 0
             THEN Append(st.skinnedMeshData, [mesh |-> child, indices |-> meshIndices])
             ELSE st.skinnedMeshData,
           particleIndex |-> st.particleIndex + cnt]
  ELSE st

RECURSIVE VisitAll(_, _, _, _)
VisitAll(st, order, geo, rate) ==
  IF order = <<>> THEN st
  ELSE VisitAll(VisitChild(st, Head(order), geo, rate), Tail(order), geo, rate)

ExtractVertices(object, geo, rate) ==
  VisitAll([positions |-> <<>>, originalPositions |-> <<>>,
            skinnedMeshData |-> <<>>, particleIndex |-> 0],
           Traverse(object), geo, rate)

\* ------------------------------------------------------------------------
\* Vectors and transforms
\* ------------------------------------------------------------------------
\* floor of the square root, by bisection on [lo, hi]
RECURSIVE SqrtSearch(_, _, _)
SqrtSearch(n, lo, hi) ==
  IF lo >= hi THEN lo
  ELSE LET mid == (lo + hi + 1) \div 2
       IN IF mid * mid <= n THEN SqrtSearch(n, mid, hi) ELSE SqrtSearch(n, lo, mid - 1)

\* Math.sqrt, rounded to the nearest unit
Sqrt(n) ==
  LET r == SqrtSearch(n, 0, 46340)
  IN IF n - r * r > r THEN r + 1 ELSE r

\* matrixWorld of the <points> object: a uniform scale followed by quarter
\* turns about the Y axis (the rotation the parent group receives)
Identity == [rot |-> 0, scale |-> 1]

RECURSIVE RotY(_, _)
RotY(v, q) == IF q = 0 THEN v ELSE RotY(<<v[3], v[2], -v[1]>>, q - 1)

\* Vector3.applyMatrix4
ApplyMatrix4(m, v) == RotY(<<v[1] * m.scale, v[2] * m.scale, v[3] * m.scale>>, m.rot)

\* Matrix4.invert, applied
ApplyInverse(m, v) ==
  LET u == RotY(v, (4 - m.rot) % 4)
  IN <<RoundDiv(u[1], m.scale), RoundDiv(u[2], m.scale), RoundDiv(u[3], m.scale)>>

\* ------------------------------------------------------------------------
\* Repulsion target and spring step (useFrame, physics part)
\* ------------------------------------------------------------------------
\* disperseStrength = 1.5 and damping = 0.8, in units of 1/F and tenths
DisperseStrength == 1500

DampingTenths == 8

\* the frame-rate normalisation of the displacement update
SixtyFps == 60

\* Math.sin(ox * 0.1 + time): time is 0 (phase 0) or pi/2 (phase 1); the
\* Taylor polynomial is exact to 1/F for the |ox| <= 5 of the scenes here
SinNoiseArg(ox, phase) ==
  LET u == RoundDiv(ox, 10)
  IN IF phase = 0 THEN u - RoundDiv(RoundDiv(u * u, F) * u, 6 * F)
     ELSE F - RoundDiv(u * u, 2 * F)

\* dist < disperseRadius, where dist = worldPos.distanceTo(mousePos).  A
\* distance is at least each |component| of the difference, so the squares
\* are only formed when they are small.
DistSquared(a, b) ==
  (a[1] - b[1]) * (a[1] - b[1]) + (a[2] - b[2]) * (a[2] - b[2])
    + (a[3] - b[3]) * (a[3] - b[3])

\* mutant: each component is compared with the radius, not the distance
WithinBox(a, b, radius) == \A c \in 1..3 : Abs(a[c] - b[c]) < radius

WithinRadius(a, b, radius) ==
  /\ \A c \in 1..3 : Abs(a[c] - b[c]) < radius
  /\ DistSquared(a, b) < radius * radius

\* Vector3.normalize: divideScalar(length() || 1)
Normalize(v) ==
  LET len == Sqrt(v[1] * v[1] + v[2] * v[2] + v[3] * v[3])
      d == IF len = 0 THEN F ELSE len
  IN <<RoundDiv(v[1] * F, d), RoundDiv(v[2] * F, d), RoundDiv(v[3] * F, d)>>

\* mutant: the repulsion is applied whatever the distance
TargetDisplacementAnywhere(worldPos, mousePos, ox, phase, radius) ==
  LET diff == <<worldPos[1] - mousePos[1], worldPos[2] - mousePos[2],
                worldPos[3] - mousePos[3]>>
      direction == Normalize(diff)
  IN <<RoundDiv(direction[1] * DisperseStrength, F),
       RoundDiv(direction[2] * DisperseStrength, F),
       RoundDiv(direction[3] * DisperseStrength, F)>>

\* targetX, targetY, targetZ of one sample
TargetDisplacement(worldPos, mousePos, ox, phase, radius) ==
  IF WithinRadius(worldPos, mousePos, radius)
  THEN LET diff == <<worldPos[1] - mousePos[1], worldPos[2] - mousePos[2],
                     worldPos[3] - mousePos[3]>>
           dist == Sqrt(DistSquared(worldPos, mousePos))
           direction == Normalize(diff)
           q == F - RoundDiv(dist * F, radius)
           influence == RoundDiv(q * q, F)
           noise == RoundDiv(SinNoiseArg(ox, phase) * 3, 10)
           T(c) == RoundDiv(RoundDiv(RoundDiv(direction[c] * influence, F)
                                       * DisperseStrength, F) * (F + noise), F)
       IN <<T(1), T(2), T(3)>>
  ELSE <<0, 0, 0>>

\* a Float32Array cell: a value beyond the representable range is not finite
\* any more (Infinity, then NaN); the model's range is MaxMag
MaxMag == 100000

Store(x) == IF x = NaN \/ Abs(x) > MaxMag THEN NaN ELSE x

\* velocities[idx] += (target - current) * springStrength * delta
Accelerate(v, target, current, speed, dt) ==
  IF v = NaN \/ current = NaN THEN NaN
  ELSE Store(v + RoundDiv((target - current) * speed * dt.num, dt.den))

\* velocities[idx] *= damping: the magnitude shrinks, so the quotient is cut
\* towards zero
Damp(v) ==
  IF v = NaN THEN NaN
  ELSE Store((IF v < 0 THEN -1 ELSE 1) * ((Abs(v) * DampingTenths) \div 10))

\* displacementAttr.array[idx] += velocities[idx] * delta * 60
Advance(d, v, dt) ==
  IF d = NaN \/ v = NaN THEN NaN
  ELSE Store(d + RoundDiv(v * dt.num * SixtyFps, dt.den))

\* ------------------------------------------------------------------------
\* Skinning data of the SkinnedMesh nodes
\* ------------------------------------------------------------------------
\* node 5 carries skinIndex, skinWeight and a skeleton of two bones; node 3
\* is a SkinnedMesh without skin attributes
HasSkeleton(mesh) == mesh = 5

BoneCount == 2

\* skinIndex and skinWeight of a vertex (four influences each)
SkinIndex(mesh, vertexIdx) == <<0, 1, 0, 0>>

SkinWeight(mesh, vertexIdx) ==
  IF vertexIdx % 2 = 0 THEN <<F, 0, 0, 0>> ELSE <<F \div 2, F \div 2, 0, 0>>

\* boneInverses[b] followed by bone.matrixWorld: the displacement of bone b
\* from its bind pose in animation pose `pose`
BoneOffset(b, pose) == IF b = 0 /\ pose = 1 THEN <<0, F, 0>> ELSE <<0, 0, 0>>

Poses == {0, 1}

\* matrixWorld of the source mesh itself
MeshMatrixWorld == Identity

RECURSIVE BlendBones(_, _, _, _, _)
BlendBones(mesh, vertexIdx, vertex, pose, j) ==
  IF j > 4 THEN <<0, 0, 0>>
  ELSE LET rest == BlendBones(mesh, vertexIdx, vertex, pose, j + 1)
           w == SkinWeight(mesh, vertexIdx)[j]
           b == SkinIndex(mesh, vertexIdx)[j]
       IN IF w > 0 /\ b < BoneCount
          THEN [c \in 1..3 |->
                  RoundDiv((vertex[c] + BoneOffset(b, pose)[c]) * w, F) + rest[c]]
          ELSE rest

\* the skinned position of one source vertex, before inverseMatrix
SkinnedVertex(mesh, vertexIdx, geo, pose) ==
  LET vertex == <<At(geo[mesh], 3 * vertexIdx), At(geo[mesh], 3 * vertexIdx + 1),
                  At(geo[mesh], 3 * vertexIdx + 2)>>
  IN IF HasSkeleton(mesh)
     THEN BlendBones(mesh, vertexIdx, vertex, pose, 1)
     ELSE ApplyMatrix4(MeshMatrixWorld, vertex)

\* mutant: only the position attribute is rewritten
WriteSkinnedPositionOnly(g, particleIdx, v) ==
  [g EXCEPT !.position = Put(Put(Put(@, 3 * particleIdx, v[1]),
                                 3 * particleIdx + 1, v[2]), 3 * particleIdx + 2, v[3])]

\* posAttr.array[idx..idx+2] = vertex; originalPosAttr.array[idx..idx+2] = vertex
WriteSkinned(g, particleIdx, v) ==
  [g EXCEPT !.position = Put(Put(Put(@, 3 * particleIdx, v[1]),
                                 3 * particleIdx + 1, v[2]), 3 * particleIdx + 2, v[3]),
            !.originalPosition = Put(Put(Put(@, 3 * particleIdx, v[1]),
                                 3 * particleIdx + 1, v[2]), 3 * particleIdx + 2, v[3])]

\* for (let i = 0; i < indices.length; i++) of one skinned range
RECURSIVE SkinRange(_, _, _, _, _, _, _)
SkinRange(g, entry, i, rate, geo, pose, world) ==
  IF i >= Len(entry.indices) THEN g
  ELSE LET particleIdx == entry.indices[i + 1]
           vertexIdx == i * rate
           next ==
             IF vertexIdx * 3 + 2 < Len(geo[entry.mesh])
             THEN WriteSkinned(g, particleIdx,
                    ApplyInverse(world, SkinnedVertex(entry.mesh, vertexIdx, geo, pose)))
             ELSE g
       IN SkinRange(next, entry, i + 1, rate, geo, pose, world)

\* for (const { mesh, indices } of skinnedMeshesRef.current)
RECURSIVE SkinnedUpdate(_, _, _, _, _, _)
SkinnedUpdate(g, ranges, rate, geo, pose, world) ==
  IF ranges = <<>> THEN g
  ELSE SkinnedUpdate(SkinRange(g, Head(ranges), 0, rate, geo, pose, world),
                     Tail(ranges), rate, geo, pose, world)

\* ------------------------------------------------------------------------
\* The physics loop of useFrame
\* ------------------------------------------------------------------------
\* mutant: the displacement is advanced with the velocity before damping
StepCellUndamped(d, v, target, speed, dt) ==
  LET v1 == Accelerate(v, target, d, speed, dt)
  IN [v |-> Damp(v1), d |-> Advance(d, v1, dt)]

\* one component of one sample: accelerate, damp, then advance
StepCell(d, v, target, speed, dt) ==
  LET v1 == Accelerate(v, target, d, speed, dt)
      v2 == Damp(v1)
  IN [v |-> v2, d |-> Advance(d, v2, dt)]

\* for (let i = 0; i < displacementAttr.count; i++); st holds the two arrays
\* the loop mutates, and records the target and the pointer of each sample
RECURSIVE PhysicsLoop(_, _, _, _, _, _, _, _, _)
PhysicsLoop(st, i, orig, world, mousePos, radius, speed, dt, phase) ==
  IF i >= Len(st.disp) \div 3 THEN st
  ELSE LET idx == 3 * i
           o == <<At(orig, idx), At(orig, idx + 1), At(orig, idx + 2)>>
           worldPos == ApplyMatrix4(world, o)
           target == TargetDisplacement(worldPos, mousePos, o[1], phase, radius)
           x == StepCell(At(st.disp, idx), At(st.vel, idx), target[1], speed, dt)
           y == StepCell(At(st.disp, idx + 1), At(st.vel, idx + 1), target[2], speed, dt)
           z == StepCell(At(st.disp, idx + 2), At(st.vel, idx + 2), target[3], speed, dt)
           vel1 == Put(Put(Put(st.vel, idx, x.v), idx + 1, y.v), idx + 2, z.v)
           disp1 == Put(Put(Put(st.disp, idx, x.d), idx + 1, y.d), idx + 2, z.d)
       IN PhysicsLoop([disp |-> disp1, vel |-> vel1,
                       targets |-> Append(st.targets, target),
                       pointers |-> Append(st.pointers, mousePos)],
                      i + 1, orig, world, mousePos, radius, speed, dt, phase)

\* ------------------------------------------------------------------------
\* Pointer projection (handleMouseMove)
\* ------------------------------------------------------------------------
\* canvasSize of useThree: 800 x 600 or 400 x 300
CanvasSizes == {1, 2}

CanvasWidth(size) == IF size = 1 THEN 800 ELSE 400

CanvasHeight(size) == IF size = 1 THEN 600 ELSE 300

\* clientX, clientY of the events delivered
MouseEvents == {<<400, 300>>}

\* the camera looks down -z from (0, 0, 7) with a 90 degree field of view
CameraPosition == <<0, 0, 7 * F>>

\* const distance = 7
RayDistance == 7

\* the initial value of mouseRef and mouse3DRef
Offscreen == 9999

\* mouseRef.current.x / .y
PointerNdc(ev, size) ==
  <<RoundDiv(ev[1] * 2 * F, CanvasWidth(size)) - F,
    -RoundDiv(ev[2] * 2 * F, CanvasHeight(size)) + F>>

\* raycaster.setFromCamera; camera.position + ray.direction * distance
PointerWorld(ndc) ==
  LET dir == Normalize(<<ndc[1], ndc[2], -F>>)
  IN [c \in 1..3 |-> CameraPosition[c] + dir[c] * RayDistance]

\* ------------------------------------------------------------------------
\* State of one mounted particle component
\* ------------------------------------------------------------------------
VARIABLES
  geo,                \* position arrays of the source meshes
  mounted,            \* the component is mounted (useFrame subscribed)
  object, sampleRate, interactive, canvasSize,  \* props of the committed render
  disperseRadius, returnSpeed,
  geometry,           \* the `geometry` state of the committed render (0: null)
  setGeometry,        \* a setGeometry call not rendered yet (0: none)
  geoms,              \* every BufferGeometry created, by id
  particleMaterial,   \* the material of the committed render
  materials,          \* every ShaderMaterial created, by id
  velocitiesRef, skinnedMeshesRef, mouseRef, mouse3DRef,
  listeners,          \* mousemove listeners on window, in registration order
  mouseEffect, extractEffect, materialEffect,   \* what each effect last ran with
  matrixWorld,        \* pointsRef.current.matrixWorld
  groupTransform,     \* the parent group's transform, as last set
  lastFrame,          \* what the latest frame callback did
  events,             \* frames and prop changes so far
  xObject, xRuns,     \* extraction sweep: the source and the runs by sampleRate
  sDisp, sVel, sDt,   \* spring run: one sample's displacement, velocity, delta
  sClock              \* spring run: parity of the frames so far

compVars ==
  <<mounted, object, sampleRate, interactive, canvasSize, disperseRadius, returnSpeed,
    geometry, setGeometry, geoms, particleMaterial, materials, velocitiesRef,
    skinnedMeshesRef, mouseRef, mouse3DRef, listeners, mouseEffect, extractEffect,
    materialEffect, matrixWorld, groupTransform, lastFrame, events>>

sweepVars == <<xObject, xRuns>>

springVars == <<sDisp, sVel, sDt, sClock>>

\* state of the other runs and components of this module
VARIABLES
  pWorld, pOrig, pMouse, pRadius, pPhase,   \* first step: transform, samples, pointer
  pDisp, pVel, pTargets, pSteps             \* first step: buffers, targets, frames run

stepVars == <<pWorld, pOrig, pMouse, pRadius, pPhase, pDisp, pVel, pTargets, pSteps>>

VARIABLES
  cVariant,           \* color run: "Particles" or "LightArray"
  cGradientColors,    \* color run: the gradientColors prop
  cUse3DGradient,     \* color run: the use3DGradient prop
  cPositions,         \* color run: originalPositions of the extracted set
  cGeometry,          \* color run: the geometry state has been rendered
  cMaterial,          \* color run: uniforms of the material of the committed render
  cFragment           \* color run: what the fragment shader last did

colorVars ==
  <<cVariant, cGradientColors, cUse3DGradient, cPositions, cGeometry, cMaterial, cFragment>>

VARIABLES tPath, tDeps, tMaterial, tLoaded, tLoads, tWarnings, tMounted, tDisposed
texVars == <<tPath, tDeps, tMaterial, tLoaded, tLoads, tWarnings, tMounted, tDisposed>>
VARIABLES
  cat,     \* RunningCatScene: state, refs, effect dependencies, timers
  user,    \* the visitor: time to the next scroll event, scroll events left
  past,    \* history of the visit: what the latest scroll and turn did
  page     \* the page around the scene: window, scroll offset, scrollProgress
catVars == <<cat, user, past, page>>
auxVars == <<stepVars, colorVars, texVars, catVars>>

vars == <<geo, compVars, sweepVars, springVars, auxVars>>

\* the meshes of the scenes the component is mounted on
SceneGeo ==
  [n \in Nodes |->
     CASE n = 2 -> <<0, 0, 0, 1000, 1000, 0>>
       [] n = 3 -> <<-1000, 0, 0>>
       [] n = 4 -> <<0, 1000, 0>>
       [] n = 5 -> <<1000, 0, 0, 3000, 0, 0>>
       [] OTHER -> <<>>]

GroupTransforms == {[rot |-> 1, scale |-> 2]}

\* frame deltas: 1/60 s
FrameDeltas == {[num |-> 1, den |-> 60]}

\* state.clock.elapsedTime, as a phase of the noise term
Phases == {0}

NoFrame ==
  [ran |-> FALSE, skinned |-> FALSE, physics |-> FALSE, geometry |-> 0,
   targets |-> <<>>, pointers |-> <<>>, uniform |-> <<0, 0, 0>>,
   pose |-> 0, world |-> Identity, dt |-> [num |-> 1, den |-> 60]]

NullRef == [null |-> TRUE, array |-> <<>>]

NewMaterial == [disposed |-> FALSE, mousePos |-> <<Offscreen * F, Offscreen * F, Offscreen * F>>]

\* the first render has been committed; its effects have not run yet
FirstRender ==
  /\ mounted = TRUE
  /\ sampleRate = 1
  /\ canvasSize = 1
  /\ geometry = 0
  /\ setGeometry = 0
  /\ geoms = <<>>
  /\ particleMaterial = 1
  /\ materials = <<NewMaterial>>
  /\ velocitiesRef = NullRef
  /\ skinnedMeshesRef = <<>>
  /\ mouseRef = <<Offscreen * F, Offscreen * F>>
  /\ mouse3DRef = <<Offscreen * F, Offscreen * F, Offscreen * F>>
  /\ listeners = <<>>
  /\ mouseEffect = [ran |-> FALSE, interactive |-> FALSE, canvasSize |-> 0, handler |-> 0,
                    made |-> 0]
  /\ extractEffect = [ran |-> FALSE, object |-> 0, sampleRate |-> 0, geometry |-> 0]
  /\ materialEffect = [ran |-> FALSE, material |-> 0]
  /\ matrixWorld = Identity
  /\ lastFrame = NoFrame
  /\ events = 0

\* ------------------------------------------------------------------------
\* Effects (run after the commit, all cleanups before all bodies)
\* ------------------------------------------------------------------------
MouseEffectDue ==
  IF mounted
  THEN ~mouseEffect.ran \/ mouseEffect.interactive # interactive
         \/ mouseEffect.canvasSize # canvasSize
  ELSE mouseEffect.ran

ExtractEffectDue ==
  IF mounted
  THEN ~extractEffect.ran \/ extractEffect.object # object
         \/ extractEffect.sampleRate # sampleRate
  ELSE extractEffect.ran

MaterialEffectDue ==
  IF mounted
  THEN ~materialEffect.ran \/ materialEffect.material # particleMaterial
  ELSE materialEffect.ran

EffectsPending == MouseEffectDue \/ ExtractEffectDue \/ MaterialEffectDue

\* mutant: the cleanup leaves the listener registered
KeepListener(ls, id) == ls

\* window.removeEventListener('mousemove', handleMouseMove)
RemoveListener(ls, id) == SelectSeq(ls, LAMBDA l : l.id # id)

\* mutant: the cleanup only clears velocitiesRef
KeepGeometry(gs, id) == gs

\* particleGeometry.dispose()
DisposeGeometry(gs, id) == [gs EXCEPT ![id].disposed = TRUE]

\* new BufferGeometry with position, originalPosition, currentDisplacement
BuildGeometry(ex, o, rate) ==
  [position |-> ex.positions, originalPosition |-> ex.originalPositions,
   currentDisplacement |-> Zeros(Len(ex.positions)), disposed |-> FALSE,
   object |-> o, sampleRate |-> rate]

\* mutant: the velocity buffer has room for one sample more than the set
NewVelocitiesSpare(ex) == [null |-> FALSE, array |-> Zeros(Len(ex.positions) + 3)]

\* velocitiesRef.current = new Float32Array(positions.length)
NewVelocities(ex) == [null |-> FALSE, array |-> Zeros(Len(ex.positions))]

FlushEffects ==
  /\ EffectsPending
  /\ LET ls1 == IF MouseEffectDue /\ mouseEffect.ran /\ mouseEffect.handler # 0
                THEN RemoveListener(listeners, mouseEffect.handler) ELSE listeners
         gs1 == IF ExtractEffectDue /\ extractEffect.ran
                THEN DisposeGeometry(geoms, extractEffect.geometry) ELSE geoms
         vel1 == IF ExtractEffectDue /\ extractEffect.ran THEN NullRef ELSE velocitiesRef
         ms1 == IF MaterialEffectDue /\ materialEffect.ran
                THEN [materials EXCEPT ![materialEffect.material].disposed = TRUE]
                ELSE materials
         ex == ExtractVertices(object, geo, sampleRate)
         made == mouseEffect.made + 1
     IN /\ materials' = ms1
        /\ IF ~mounted
           THEN /\ listeners' = ls1
                /\ geoms' = gs1
                /\ velocitiesRef' = vel1
                /\ mouseEffect' = [mouseEffect EXCEPT !.ran = FALSE, !.handler = 0]
                /\ extractEffect' = [extractEffect EXCEPT !.ran = FALSE]
                /\ materialEffect' = [materialEffect EXCEPT !.ran = FALSE]
                /\ UNCHANGED <<skinnedMeshesRef, setGeometry>>
           ELSE /\ IF MouseEffectDue
                   THEN IF interactive
                        THEN /\ listeners' = Append(ls1, [id |-> made, size |-> canvasSize])
                             /\ mouseEffect' =
                                  [ran |-> TRUE, interactive |-> interactive,
                                   canvasSize |-> canvasSize, handler |-> made,
                                   made |-> made]
                        ELSE /\ listeners' = ls1
                             /\ mouseEffect' =
                                  [ran |-> TRUE, interactive |-> interactive,
                                   canvasSize |-> canvasSize, handler |-> 0,
                                   made |-> mouseEffect.made]
                   ELSE UNCHANGED <<listeners, mouseEffect>>
                /\ IF ExtractEffectDue
                   THEN /\ skinnedMeshesRef' = ex.skinnedMeshData
                        /\ geoms' = Append(gs1, BuildGeometry(ex, object, sampleRate))
                        /\ velocitiesRef' = NewVelocities(ex)
                        /\ setGeometry' = Len(gs1) + 1
                        /\ extractEffect' =
                             [ran |-> TRUE, object |-> object, sampleRate |-> sampleRate,
                              geometry |-> Len(gs1) + 1]
                   ELSE /\ geoms' = gs1
                        /\ velocitiesRef' = vel1
                        /\ UNCHANGED <<skinnedMeshesRef, setGeometry, extractEffect>>
                /\ materialEffect' =
                     IF MaterialEffectDue
                     THEN [ran |-> TRUE, material |-> particleMaterial]
                     ELSE materialEffect
  /\ UNCHANGED <<geo, mounted, object, sampleRate, interactive, canvasSize,
                 disperseRadius, returnSpeed, geometry, particleMaterial, mouseRef,
                 mouse3DRef, matrixWorld, groupTransform, lastFrame, events, sweepVars, springVars, auxVars>>

\* ------------------------------------------------------------------------
\* Renders
\* ------------------------------------------------------------------------
\* a BufferGeometry no render refers to any more: only its disposal is tracked
Unreferenced(g) ==
  [g EXCEPT !.position = <<>>, !.originalPosition = <<>>, !.currentDisplacement = <<>>]

Collect(gs, keep) == [i \in DOMAIN gs |-> IF i = keep THEN gs[i] ELSE Unreferenced(gs[i])]

\* useMemo: a new ShaderMaterial when `interactive` or `geometry` changed
RenderMaterial(newInteractive, newGeometry) ==
  IF newInteractive # interactive \/ newGeometry # geometry
  THEN /\ materials' = Append(materials, NewMaterial)
       /\ particleMaterial' = Len(materials) + 1
  ELSE UNCHANGED <<materials, particleMaterial>>

\* the re-render that setGeometry(particleGeometry) asked for
StateRender ==
  /\ mounted
  /\ ~EffectsPending
  /\ setGeometry # 0
  /\ geometry' = setGeometry
  /\ setGeometry' = 0
  /\ geoms' = Collect(geoms, setGeometry)
  /\ RenderMaterial(interactive, setGeometry)
  /\ UNCHANGED <<geo, mounted, object, sampleRate, interactive, canvasSize,
                 disperseRadius, returnSpeed, velocitiesRef, skinnedMeshesRef,
                 mouseRef, mouse3DRef, listeners, mouseEffect, extractEffect,
                 materialEffect, matrixWorld, groupTransform, lastFrame, events, sweepVars, springVars, auxVars>>

\* the parent renders the component with other props (or the canvas resizes);
\* a setGeometry still queued is rendered with them
PropsRender(o, rate, ia, size) ==
  /\ mounted
  /\ ~EffectsPending
  /\ events < MaxEvents
  /\ Cardinality({i \in 1..4 : <<o, rate, ia, size>>[i]
                                 # <<object, sampleRate, interactive, canvasSize>>[i]}) = 1
  /\ object' = o
  /\ sampleRate' = rate
  /\ interactive' = ia
  /\ canvasSize' = size
  /\ geometry' = IF setGeometry # 0 THEN setGeometry ELSE geometry
  /\ setGeometry' = 0
  /\ geoms' = Collect(geoms, IF setGeometry # 0 THEN setGeometry ELSE geometry)
  /\ RenderMaterial(ia, IF setGeometry # 0 THEN setGeometry ELSE geometry)
  /\ events' = events + 1
  /\ UNCHANGED <<geo, mounted, disperseRadius, returnSpeed, velocitiesRef,
                 skinnedMeshesRef, mouseRef, mouse3DRef, listeners, mouseEffect,
                 extractEffect, materialEffect, matrixWorld, groupTransform, lastFrame, sweepVars, springVars, auxVars>>

\* the parent removes the component: the frame callback is unsubscribed and the
\* <points> object detached at once; the effect cleanups run with the next flush
Unmount ==
  /\ mounted
  /\ ~EffectsPending
  /\ mounted' = FALSE
  /\ setGeometry' = 0
  /\ geometry' = 0
  /\ geoms' = Collect(geoms, 0)
  /\ lastFrame' = NoFrame
  /\ UNCHANGED <<geo, object, sampleRate, interactive, canvasSize, disperseRadius,
                 returnSpeed, particleMaterial, materials, velocitiesRef,
                 skinnedMeshesRef, mouseRef, mouse3DRef, listeners, mouseEffect,
                 extractEffect, materialEffect, matrixWorld, groupTransform, events,
                 sweepVars, springVars, auxVars>>

\* ------------------------------------------------------------------------
\* mousemove
\* ------------------------------------------------------------------------
\* every registered handler runs, in registration order; st = <<mouseRef, mouse3DRef>>
RECURSIVE Dispatch(_, _, _)
Dispatch(st, ls, ev) ==
  IF ls = <<>> THEN st
  ELSE LET ndc == PointerNdc(ev, Head(ls).size)
       IN Dispatch(<<ndc, PointerWorld(ndc)>>, Tail(ls), ev)

MouseMove(ev) ==
  /\ listeners # <<>>
  /\ LET st == Dispatch(<<mouseRef, mouse3DRef>>, listeners, ev)
     IN /\ mouseRef' = st[1]
        /\ mouse3DRef' = st[2]
  /\ UNCHANGED <<geo, mounted, object, sampleRate, interactive, canvasSize,
                 disperseRadius, returnSpeed, geometry, setGeometry, geoms,
                 particleMaterial, materials, velocitiesRef, skinnedMeshesRef,
                 listeners, mouseEffect, extractEffect, materialEffect, matrixWorld,
                 groupTransform, lastFrame, events, sweepVars, springVars, auxVars>>

\* ------------------------------------------------------------------------
\* The frame callback (useFrame), followed by the renderer's matrix update
\* ------------------------------------------------------------------------
\* mutant: the uniform is left at the value the material was created with
KeepUniform(ms, id, value) == ms

\* particleMaterial.uniforms.mousePos.value.copy(mouse3DRef.current)
CopyMousePos(ms, id, value) == [ms EXCEPT ![id].mousePos = value]

\* mutant: the physics runs whatever `interactive` is
PhysicsAlways(ia, g, vel) == g # 0 /\ ~vel.null

\* if (interactive && geometry && velocitiesRef.current && pointsRef.current)
PhysicsGuard(ia, g, vel) == ia /\ g # 0 /\ ~vel.null

\* if (geometry && skinnedMeshesRef.current.length > 0 && pointsRef.current)
SkinnedGuard(g, ranges) == g # 0 /\ ranges # <<>>

Frame(dt, phase, pose) ==
  /\ mounted
  /\ events < MaxEvents
  /\ SkinnedGuard(geometry, skinnedMeshesRef) \/ pose = 0
  /\ LET skinned == SkinnedGuard(geometry, skinnedMeshesRef)
         physics == PhysicsGuard(interactive, geometry, velocitiesRef)
         g0 == geoms[geometry]
         g1 == IF skinned
               THEN SkinnedUpdate(g0, skinnedMeshesRef, sampleRate, geo, pose, matrixWorld)
               ELSE g0
         st == PhysicsLoop([disp |-> g1.currentDisplacement, vel |-> velocitiesRef.array,
                            targets |-> <<>>, pointers |-> <<>>],
                           0, g1.originalPosition, matrixWorld, mouse3DRef,
                           disperseRadius, returnSpeed, dt, phase)
         ms1 == IF interactive
                THEN CopyMousePos(materials, particleMaterial, mouse3DRef)
                ELSE materials
     IN /\ materials' = ms1
        /\ geoms' =
             IF geometry = 0 THEN geoms
             ELSE [geoms EXCEPT ![geometry] =
                     IF physics THEN [g1 EXCEPT !.currentDisplacement = st.disp] ELSE g1]
        /\ velocitiesRef' =
             IF physics THEN [null |-> FALSE, array |-> st.vel] ELSE velocitiesRef
        /\ lastFrame' =
             [ran |-> TRUE, skinned |-> skinned, physics |-> physics,
              geometry |-> geometry,
              targets |-> IF physics THEN st.targets ELSE <<>>,
              pointers |-> IF physics THEN st.pointers ELSE <<>>,
              uniform |-> ms1[particleMaterial].mousePos,
              pose |-> IF skinned THEN pose ELSE 0,
              world |-> matrixWorld,
              dt |-> IF physics THEN dt ELSE [num |-> 1, den |-> 60]]
        /\ matrixWorld' = IF geometry # 0 THEN groupTransform ELSE matrixWorld
  /\ events' = events + 1
  /\ UNCHANGED <<geo, mounted, object, sampleRate, interactive, canvasSize,
                 disperseRadius, returnSpeed, geometry, setGeometry, particleMaterial,
                 skinnedMeshesRef, mouseRef, mouse3DRef, listeners, mouseEffect,
                 extractEffect, materialEffect, groupTransform,
                 sweepVars, springVars, auxVars>>

\* ------------------------------------------------------------------------
\* Specification of the mounted component
\* ------------------------------------------------------------------------
SweepIdle == xObject = 0 /\ xRuns = <<>>

SpringIdle ==
  /\ sDisp = <<0, 0, 0>>
  /\ sVel = <<0, 0, 0>>
  /\ sDt = [num |-> 1, den |-> 60]
  /\ sClock = 0

\* the first-step run before any input is drawn
StepIdle ==
  /\ pWorld = Identity
  /\ pOrig = <<>>
  /\ pMouse = <<Offscreen * F, Offscreen * F, Offscreen * F>>
  /\ pRadius = 0
  /\ pPhase = 0
  /\ pDisp = <<>>
  /\ pVel = <<>>
  /\ pTargets = <<>>
  /\ pSteps = 0

\* the color run before any input is drawn
ColorIdle ==
  /\ cVariant = "Particles"
  /\ cGradientColors = [null |-> TRUE, list |-> <<>>]
  /\ cUse3DGradient = FALSE
  /\ cPositions = <<>>
  /\ cGeometry = FALSE
  /\ cMaterial = <<>>
  /\ cFragment = <<>>

\* the textured-material hook is not in use
TexIdle ==
  /\ tPath = 0
  /\ tDeps = 0
  /\ tMaterial = [kind |-> "null", run |-> 0]
  /\ tLoaded = FALSE
  /\ tLoads = <<>>
  /\ tWarnings = 0
  /\ tMounted = FALSE
  /\ tDisposed = {}

\* RunningCatScene is not in use
\* the scroll handler is not followed on its own
PageIdle == page = <<>>

CatIdle == cat = <<>> /\ user = <<>> /\ past = <<>> /\ PageIdle

AuxIdle == StepIdle /\ ColorIdle /\ TexIdle /\ CatIdle

Init ==
  /\ geo = SceneGeo
  /\ FirstRender
  /\ object \in Roots
  /\ interactive \in BOOLEAN
  /\ disperseRadius \in {0, (5 * F) \div 2}
  /\ returnSpeed = 3
  /\ groupTransform \in GroupTransforms
  /\ SweepIdle
  /\ SpringIdle
  /\ AuxIdle

\* one animation frame
FrameStep ==
  \E dt \in FrameDeltas, phase \in Phases, pose \in Poses : Frame(dt, phase, pose)

Next ==
  \/ FlushEffects
  \/ StateRender
  \/ \E o \in Roots, rate \in 1..2, ia \in BOOLEAN, size \in CanvasSizes :
       PropsRender(o, rate, ia, size)
  \/ Unmount
  \/ \E ev \in MouseEvents : MouseMove(ev)
  \/ FrameStep

Spec == Init /\ [][Next]_vars

\* ------------------------------------------------------------------------
\* Extraction sweep: one source, extracted with sampleRate 1, 2, ... in turn
\* ------------------------------------------------------------------------
\* the vertices the generated primitives are made of
VertexChoices == {<<0, 0, 0>>, <<F, 2 * F, 3 * F>>}

RECURSIVE Flatten(_)
Flatten(vs) == IF vs = <<>> THEN <<>> ELSE Head(vs) \o Flatten(Tail(vs))

\* position arrays of up to MaxVerts vertices
PositionArrays ==
  {Flatten(vs) : vs \in UNION {[1..n -> VertexChoices] : n \in 0..MaxVerts}}

\* the scenes under root r: every primitive of r carries some position array
ScenesUnder(r) ==
  {[n \in Nodes |-> IF n \in DOMAIN f THEN f[n] ELSE <<>>] :
     f \in [MeshesUnder(r) -> PositionArrays]}

\* the component as first rendered, never touched by the sweep or the spring run
ComponentIdle ==
  /\ FirstRender
  /\ object = 1
  /\ interactive = FALSE
  /\ disperseRadius = (5 * F) \div 2
  /\ groupTransform = Identity

InitExtract ==
  /\ xObject \in Roots
  /\ geo \in ScenesUnder(xObject)
  /\ xRuns = <<>>
  /\ ComponentIdle
  /\ returnSpeed = 3
  /\ SpringIdle
  /\ AuxIdle

\* the body of the extraction effect, run with sampleRate = Len(xRuns) + 1
RunExtraction ==
  /\ Len(xRuns) < MaxRate
  /\ xRuns' = Append(xRuns, ExtractVertices(xObject, geo, Len(xRuns) + 1))
  /\ UNCHANGED <<geo, compVars, xObject, springVars, auxVars>>

NextExtract == RunExtraction

SpecExtract == InitExtract /\ [][NextExtract]_vars

\* ------------------------------------------------------------------------
\* Sample count and sample order of the extraction
\* ------------------------------------------------------------------------
\* vertices of primitive n, and of the whole source
VertexCount(n) == Len(geo[n]) \div 3

\* the leaf primitives of the source, in traversal order
Primitives ==
  SelectSeq(Traverse(xObject), LAMBDA n : n \in MeshNodes)

RawVertexCount == SumSeq([i \in 1..Len(Primitives) |-> VertexCount(Primitives[i])])

SampleCount(k) == Len(xRuns[k].positions) \div 3

\* the sum over the primitives of ceil(vertexCount / k)
PerPrimitiveCount(k) ==
  SumSeq([i \in 1..Len(Primitives) |-> CeilDiv(VertexCount(Primitives[i]), k)])

\* C1 (as stated): for every source and every k >= 1 the extraction yields
\* exactly ceil(rawVertexCount / k) samples, and the count does not increase
\* with k.
C1_CountIsCeilOfTotal ==
  /\ \A k \in 1..Len(xRuns) : SampleCount(k) = CeilDiv(RawVertexCount, k)
  /\ \A k \in 2..Len(xRuns) : SampleCount(k) <= SampleCount(k - 1)

\* C1 (amended): the stride restarts at every leaf primitive, so the count is
\* the sum over the primitives of ceil(vertexCount / k): that is
\* ceil(rawVertexCount / k) for a source of one primitive and for k = 1, never
\* less than it, and it does not increase with k.
C1_CountIsSumOfCeils ==
  /\ \A k \in 1..Len(xRuns) :
       /\ SampleCount(k) = PerPrimitiveCount(k)
       /\ SampleCount(k) >= CeilDiv(RawVertexCount, k)
       /\ (Len(Primitives) <= 1 \/ k = 1) => SampleCount(k) = CeilDiv(RawVertexCount, k)
       /\ xRuns[k].particleIndex = SampleCount(k)
  /\ \A k \in 2..Len(xRuns) : SampleCount(k) <= SampleCount(k - 1)

\* a source of three primitives with one vertex each, extracted with k = 1 and
\* k = 2: three samples, where ceil(3 / 2) = 2
C1_Witness ==
  /\ Len(xRuns) >= 2
  /\ Len(Primitives) = 3
  /\ \A i \in 1..3 : VertexCount(Primitives[i]) = 1
  /\ SampleCount(2) = 3
  /\ CeilDiv(RawVertexCount, 2) = 2

\* vertex v of primitive n
VertexOf(n, v) == <<geo[n][3 * v + 1], geo[n][3 * v + 2], geo[n][3 * v + 3]>>

\* vertices 0, k, 2k, ... of primitive n, in that order
EveryKth(n, k) ==
  Flatten([j \in 1..CeilDiv(VertexCount(n), k) |-> VertexOf(n, (j - 1) * k)])

RECURSIVE ExpectedSamples(_, _)
ExpectedSamples(ps, k) ==
  IF ps = <<>> THEN <<>> ELSE EveryKth(Head(ps), k) \o ExpectedSamples(Tail(ps), k)

\* all vertices of all primitives, in traversal order
RECURSIVE AllVertices(_)
AllVertices(ps) == IF ps = <<>> THEN <<>> ELSE geo[Head(ps)] \o AllVertices(Tail(ps))

\* C2: the primitives are visited in traversal order and each contributes its
\* vertices 0, k, 2k, ... in order, nothing reordered or dropped as a
\* duplicate; with k = 1 every vertex is one sample, and position and
\* originalPosition of a sample are both that vertex.
C2_SamplesInOrder ==
  /\ \A k \in 1..Len(xRuns) :
       /\ xRuns[k].positions = ExpectedSamples(Primitives, k)
       /\ xRuns[k].originalPositions = xRuns[k].positions
  /\ Len(xRuns) >= 1 => xRuns[1].positions = AllVertices(Primitives)

\* two primitives that list the same vertex, a third that differs, all of
\* them sampled with k = 2: the equal samples are both kept, in order
C2_Witness ==
  /\ Len(xRuns) >= 2
  /\ xObject = 1
  /\ geo[2] = <<0, 0, 0, F, 2 * F, 3 * F, 0, 0, 0>>
  /\ geo[4] = <<F, 2 * F, 3 * F>>
  /\ geo[3] = <<0, 0, 0, 0, 0, 0>>
  /\ xRuns[2].positions = <<0, 0, 0, 0, 0, 0, F, 2 * F, 3 * F, 0, 0, 0>>
  /\ Len(xRuns[1].positions) = 18

\* ------------------------------------------------------------------------
\* Spring run: one sample at the origin, the pointer never moved, a frame
\* callback at every animation frame with the same delta
\* ------------------------------------------------------------------------
\* delta of useFrame: 60 frames a second, or one frame a second
SpringDeltas == {[num |-> 1, den |-> 60], [num |-> 1, den |-> 1]}

\* returnSpeed as the scenes pass it: 1.0 and the default 3.0
ReturnSpeeds == {1, 3}

StartDisplacements == {<<100, 0, 0>>, <<1000, 0, -200>>}

StartVelocities == {<<0, 0, 0>>, <<0, 50, 0>>}

InitSpring ==
  /\ geo = SceneGeo
  /\ ComponentIdle
  /\ returnSpeed \in ReturnSpeeds
  /\ SweepIdle
  /\ sDisp \in StartDisplacements
  /\ sVel \in StartVelocities
  /\ sDt \in SpringDeltas
  /\ sClock = 0
  /\ AuxIdle

\* the frame loop's clock advances with every frame
SpringTick == sClock' = 1 - sClock

\* the physics part of the frame callback, on the one sample
SpringFrame ==
  /\ SpringTick
  /\ LET st == PhysicsLoop([disp |-> sDisp, vel |-> sVel, targets |-> <<>>,
                            pointers |-> <<>>],
                           0, <<0, 0, 0>>, Identity, mouse3DRef, disperseRadius,
                           returnSpeed, sDt, 0)
     IN /\ sDisp' = st.disp
        /\ sVel' = st.vel
  /\ UNCHANGED <<geo, compVars, sweepVars, sDt, auxVars>>

NextSpring == SpringFrame

\* the frame loop calls the callback at every animation frame: the callback has
\* no guard, so a frame is taken exactly when the clock ticks
SpecSpring == InitSpring /\ [][NextSpring]_vars /\ WF_sClock(SpringTick)

\* the displacement magnitude the return is measured against (0.05)
SpringEps == 50

AtRest == \A c \in 1..3 : sDisp[c] # NaN /\ Abs(sDisp[c]) <= SpringEps

\* C3: for every returnSpeed > 0 and every fixed delta > 0, from any
\* displacement and velocity, with the pointer out of reach the displacement
\* eventually stays within epsilon of zero.
C3_ReturnsToRest == <>[]AtRest

\* ------------------------------------------------------------------------
\* The frame callback of the mounted component: targets and spring step
\* ------------------------------------------------------------------------
\* sample i of a buffer of item size 3
Sample3(arr, i) == <<At(arr, 3 * i), At(arr, 3 * i + 1), At(arr, 3 * i + 2)>>

ZeroVector == <<0, 0, 0>>

\* dist >= radius: some component of the difference is that large already, or
\* the sum of the squares is
FarFromPointer(a, b, radius) ==
  \/ \E c \in 1..3 : Abs(a[c] - b[c]) >= radius
  \/ DistSquared(a, b) >= radius * radius

\* C4: in every frame, a sample whose world-space distance to the pointer is
\* at least disperseRadius gets the target displacement (0, 0, 0) in that
\* frame's spring step; with disperseRadius = 0 no sample gets another target.
C4_FarSamplesGetZeroTarget ==
  [][(FrameStep /\ lastFrame'.physics) =>
       LET orig == geoms'[geometry].originalPosition
       IN /\ Len(lastFrame'.targets) = Len(orig) \div 3
          /\ \A i \in 1..Len(lastFrame'.targets) :
               FarFromPointer(ApplyMatrix4(matrixWorld, Sample3(orig, i - 1)),
                              mouse3DRef, disperseRadius)
                 => lastFrame'.targets[i] = ZeroVector
          /\ disperseRadius = 0 =>
               \A i \in 1..Len(lastFrame'.targets) : lastFrame'.targets[i] = ZeroVector]_vars

\* a frame has stepped a set of which one sample lies beyond the radius and
\* has target zero, while another lies within it and has a nonzero target
C4_Witness ==
  /\ lastFrame.physics
  /\ lastFrame.geometry = geometry
  /\ disperseRadius > 0
  /\ \E i, j \in 1..Len(lastFrame.targets) :
       /\ FarFromPointer(ApplyMatrix4(lastFrame.world,
                                      Sample3(geoms[geometry].originalPosition, i - 1)),
                         mouse3DRef, disperseRadius)
       /\ lastFrame.targets[i] = ZeroVector
       /\ lastFrame.targets[j] # ZeroVector

\* the step as the reference formula states it, for one component
ReferenceVelocity(d, v, target, speed, dt) == Damp(Accelerate(v, target, d, speed, dt))

ReferenceDisplacement(d, v, target, speed, dt) ==
  Advance(d, ReferenceVelocity(d, v, target, speed, dt), dt)

\* C5: one step updates every component of every sample by
\* velocity += (target - displacement) * returnSpeed * delta, then
\* velocity *= 0.8, then displacement += velocity * delta * 60 with the damped
\* velocity; nothing else is read or written (no coupling between samples or
\* components).
C5_StepIsReferenceFormula ==
  [][(FrameStep /\ lastFrame'.physics) =>
       LET d0 == geoms[geometry].currentDisplacement
           v0 == velocitiesRef.array
           d1 == geoms'[geometry].currentDisplacement
           v1 == velocitiesRef'.array
       IN /\ Len(d1) = Len(d0)
          /\ Len(v1) = Len(v0)
          /\ \A i \in 0..(Len(d0) \div 3 - 1), c \in 0..2 :
               LET idx == 3 * i + c
                   target == lastFrame'.targets[i + 1][c + 1]
               IN /\ At(v1, idx) = ReferenceVelocity(At(d0, idx), At(v0, idx), target,
                                                     returnSpeed, lastFrame'.dt)
                  /\ At(d1, idx) = ReferenceDisplacement(At(d0, idx), At(v0, idx), target,
                                                         returnSpeed, lastFrame'.dt)
          /\ \A idx \in Len(d0)..(Len(v0) - 1) : At(v1, idx) = At(v0, idx)]_vars

\* a frame has stepped a set in which one component moves under a nonzero
\* target while the components of another sample stay at rest
C5_Witness ==
  /\ lastFrame.physics
  /\ lastFrame.geometry = geometry
  /\ ~velocitiesRef.null
  /\ \E i, j \in 0..(Len(velocitiesRef.array) - 1) :
       /\ At(velocitiesRef.array, i) \notin {0, NaN}
       /\ At(geoms[geometry].currentDisplacement, i) \notin {0, NaN}
       /\ At(velocitiesRef.array, i) # At(geoms[geometry].currentDisplacement, i)
       /\ At(velocitiesRef.array, j) = 0
       /\ At(geoms[geometry].currentDisplacement, j) = 0

\* ------------------------------------------------------------------------
\* The skinned update and the interactive guard
\* ------------------------------------------------------------------------
\* the vertex of its mesh that the i-th sample of a skinned range was taken
\* from, in a set extracted with sampleRate `rate`
SourceVertex(i, rate) == i * rate

\* the skinned position of that vertex in the frame's pose, in the local
\* space of the <points> object
NewlySkinned(mesh, i, rate, pose, world) ==
  ApplyInverse(world, SkinnedVertex(mesh, SourceVertex(i, rate), geo, pose))

\* C6: after each frame's skinned update, every sample listed in a skinned
\* range has position and originalPosition both equal to the newly skinned
\* position of its source vertex.  (Stated for the frames whose ranges were
\* recorded by the extraction that built the frame's geometry.)
C6_SkinnedSamplesFollowPose ==
  [][(FrameStep /\ lastFrame'.skinned /\ extractEffect.ran
        /\ extractEffect.geometry = geometry) =>
       LET g == geoms'[geometry]
       IN \A r \in 1..Len(skinnedMeshesRef) :
            \A i \in 1..Len(skinnedMeshesRef[r].indices) :
              LET particleIdx == skinnedMeshesRef[r].indices[i]
                  v == NewlySkinned(skinnedMeshesRef[r].mesh, i - 1, g.sampleRate,
                                    lastFrame'.pose, matrixWorld)
              IN /\ Sample3(g.position, particleIdx) = v
                 /\ Sample3(g.originalPosition, particleIdx) = v]_vars

\* C7: while interactive is false a frame leaves every displacement and every
\* velocity as it was; a displacement that was nonzero when interactive was
\* switched off is not reset.
C7_FrozenWhileNotInteractive ==
  [][(FrameStep /\ ~interactive) =>
       /\ velocitiesRef' = velocitiesRef
       /\ \A id \in 1..Len(geoms) :
            geoms'[id].currentDisplacement = geoms[id].currentDisplacement]_vars

\* interactive was switched off with a sample displaced, and a frame has run
\* since: the displacement and the velocity are still there
C7_Witness ==
  /\ ~interactive
  /\ lastFrame.ran
  /\ ~lastFrame.physics
  /\ lastFrame.geometry = geometry
  /\ geometry # 0
  /\ ~velocitiesRef.null
  /\ \E i \in 0..(Len(velocitiesRef.array) - 1) :
       /\ At(velocitiesRef.array, i) \notin {0, NaN}
       /\ At(geoms[geometry].currentDisplacement, i) \notin {0, NaN}

\* ------------------------------------------------------------------------
\* Rebuild on a new source, teardown, and the pointer value of a frame
\* ------------------------------------------------------------------------
\* the set built by the latest extraction is the one rendered, and no frame
\* has run since it was installed
NotSteppedYet ==
  /\ geometry # 0
  /\ setGeometry = 0
  /\ geometry = extractEffect.geometry
  /\ lastFrame.geometry # geometry

\* C8: whenever object or sampleRate changes, the previous geometry is
\* disposed and a new set is built from the new source: its sample count is
\* that of the new source, and its displacement and velocity are all zero when
\* the simulation first steps it (nothing of the previous set carries over).
C8_RebuildStartsAtRest ==
  (mounted /\ ~EffectsPending /\ NotSteppedYet) =>
    LET g == geoms[geometry]
        n == Len(ExtractVertices(g.object, geo, g.sampleRate).positions)
    IN /\ Len(g.position) = n
       /\ g.currentDisplacement = Zeros(n)
       /\ ~velocitiesRef.null
       /\ velocitiesRef.array = Zeros(n)
       /\ \A id \in 1..Len(geoms) : id # extractEffect.geometry => geoms[id].disposed

\* all listeners removed, every geometry and every material disposed
TornDown ==
  /\ listeners = <<>>
  /\ \A id \in 1..Len(geoms) : geoms[id].disposed
  /\ \A id \in 1..Len(materials) : materials[id].disposed

\* C9 (as stated): after unmount no mousemove listener of the component
\* remains and every geometry and material it created is disposed; while
\* mounted it has at most one listener, and none while interactive is false.
C9_NoListenerWhileNotInteractive ==
  /\ (~mounted /\ ~EffectsPending) => TornDown
  /\ mounted => Len(listeners) <= 1
  /\ (mounted /\ ~interactive) => listeners = <<>>

\* C9 (amended): as stated, except that the listener of an interactive render
\* stays registered until the effects of the render that made interactive
\* false have run; once they have, a listener is registered exactly when
\* interactive is true.
C9_ListenerFollowsEffects ==
  /\ (~mounted /\ ~EffectsPending) => TornDown
  /\ Len(listeners) <= 1
  /\ (mounted /\ ~EffectsPending) => (listeners # <<>> <=> interactive)
  /\ (mounted /\ ~EffectsPending) =>
       /\ \A id \in 1..Len(geoms) : geoms[id].disposed <=> id # extractEffect.geometry
       /\ \A id \in 1..Len(materials) : materials[id].disposed <=> id # particleMaterial

\* a component that registered a listener and built two geometries and three
\* materials has been unmounted, and its cleanups have run
C9_Witness ==
  /\ ~mounted
  /\ ~EffectsPending
  /\ mouseEffect.made >= 1
  /\ Len(geoms) >= 2
  /\ Len(materials) >= 3
  /\ TornDown

\* C10: within one frame every sample is measured against one pointer
\* position, the one the last mousemove handler wrote before the frame began,
\* and the mousePos uniform of that frame holds the same value.
C10_OnePointerPerFrame ==
  [][(FrameStep /\ interactive) =>
       /\ lastFrame'.uniform = mouse3DRef
       /\ materials'[particleMaterial].mousePos = mouse3DRef
       /\ lastFrame'.physics =>
            /\ Len(lastFrame'.pointers) = Len(geoms[geometry].currentDisplacement) \div 3
            /\ \A i \in 1..Len(lastFrame'.pointers) : lastFrame'.pointers[i] = mouse3DRef]_vars

\* a frame has stepped several samples after a mousemove: all of them, and the
\* uniform, saw the position the handler wrote
C10_Witness ==
  /\ lastFrame.physics
  /\ Len(lastFrame.pointers) >= 2
  /\ mouse3DRef # <<Offscreen * F, Offscreen * F, Offscreen * F>>
  /\ \A i \in 1..Len(lastFrame.pointers) : lastFrame.pointers[i] = mouse3DRef
  /\ lastFrame.uniform = mouse3DRef

\* ------------------------------------------------------------------------
\* First step: a set at rest under some world transform, stepped by one frame
\* ------------------------------------------------------------------------
\* matrixWorld of the <points> object: the rotation about Y the model group
\* receives (in quarter turns) and the scale of the group around it
StepTransforms == {[rot |-> q, scale |-> k] : q \in 0..3, k \in 1..2}

\* originalPosition buffers of three samples
StepSets ==
  {<<0, 0, 0, F, 0, 0, 2 * F, 0, 0>>,
   <<0, F \div 2, 0, 2 * F, 0, 0, 0, 0, -F>>}

\* mouse3DRef: never moved, at the origin, or at (1, 0, 0)
StepPointers ==
  {<<Offscreen * F, Offscreen * F, Offscreen * F>>, <<0, 0, 0>>, <<F, 0, 0>>}

\* disperseRadius: 0 and the default 2.0
StepRadii == {0, 2 * F}

\* elapsedTime, as a phase of the noise term
StepPhases == {0, 1}

InitStep ==
  /\ geo = SceneGeo
  /\ ComponentIdle
  /\ returnSpeed = 3
  /\ SweepIdle
  /\ SpringIdle
  /\ pWorld \in StepTransforms
  /\ pOrig \in StepSets
  /\ pMouse \in StepPointers
  /\ pRadius \in StepRadii
  /\ pPhase \in StepPhases
  /\ pDisp = Zeros(Len(pOrig))
  /\ pVel = Zeros(Len(pOrig))
  /\ pTargets = <<>>
  /\ pSteps = 0
  /\ ColorIdle
  /\ TexIdle
  /\ CatIdle

\* the physics part of the frame callback, once, with delta = 1/60 s
FirstStep ==
  /\ pSteps = 0
  /\ LET st == PhysicsLoop([disp |-> pDisp, vel |-> pVel, targets |-> <<>>,
                            pointers |-> <<>>],
                           0, pOrig, pWorld, pMouse, pRadius, returnSpeed,
                           [num |-> 1, den |-> 60], pPhase)
     IN /\ pDisp' = st.disp
        /\ pVel' = st.vel
        /\ pTargets' = st.targets
  /\ pSteps' = 1
  /\ UNCHANGED <<geo, compVars, sweepVars, springVars, pWorld, pOrig, pMouse, pRadius,
                 pPhase, colorVars, texVars, catVars>>

NextStep == FirstStep

SpecStep == InitStep /\ [][NextStep]_vars

Dot(a, b) == a[1] * b[1] + a[2] * b[2] + a[3] * b[3]

Minus(a, b) == <<a[1] - b[1], a[2] - b[2], a[3] - b[3]>>

\* the vertex shader: pos = originalPosition + currentDisplacement, then the
\* model matrix
RenderedWorld(world, orig, disp) ==
  ApplyMatrix4(world, <<orig[1] + disp[1], orig[2] + disp[2], orig[3] + disp[3]>>)

\* the world position the frame callback measures sample i at
WorldPos(i) == ApplyMatrix4(pWorld, Sample3(pOrig, i - 1))

\* C13: for every sample within disperseRadius of the pointer and every world
\* transform of the set, the displacement the step drives the sample toward
\* moves its rendered world position away from the pointer: the rendered
\* offset has a positive component along (sampleWorldPos - pointerWorldPos).
C13_DisplacementMovesAway ==
  pSteps = 1 =>
    \A i \in 1..Len(pTargets) :
      LET o == Sample3(pOrig, i - 1)
          offset == Minus(RenderedWorld(pWorld, o, pTargets[i]), WorldPos(i))
      IN (WithinRadius(WorldPos(i), pMouse, pRadius) /\ pTargets[i] # ZeroVector)
           => Dot(offset, Minus(WorldPos(i), pMouse)) > 0

\* a sample is at rest after the step
StillAtRest(i) ==
  /\ Sample3(pVel, i - 1) = ZeroVector
  /\ Sample3(pDisp, i - 1) = ZeroVector

\* C18 (as stated): after one step from rest a sample has nonzero velocity if
\* and only if its distance to the pointer is less than disperseRadius; every
\* sample at distance >= disperseRadius still has zero velocity and zero
\* displacement.
C18_MovesIffWithinRadius ==
  pSteps = 1 =>
    \A i \in 1..(Len(pOrig) \div 3) :
      /\ Sample3(pVel, i - 1) # ZeroVector
           <=> WithinRadius(WorldPos(i), pMouse, pRadius)
      /\ FarFromPointer(WorldPos(i), pMouse, pRadius) => StillAtRest(i)

\* C18 (amended): as stated, for the samples that are not at the pointer's
\* own position; a sample exactly at the pointer has no direction to move in
\* and stays at rest.
C18_MovesIffWithinAndApart ==
  pSteps = 1 =>
    \A i \in 1..(Len(pOrig) \div 3) :
      /\ Sample3(pVel, i - 1) # ZeroVector
           <=> (WithinRadius(WorldPos(i), pMouse, pRadius) /\ WorldPos(i) # pMouse)
      /\ (FarFromPointer(WorldPos(i), pMouse, pRadius) \/ WorldPos(i) = pMouse)
           => StillAtRest(i)
      /\ Len(pTargets) = Len(pOrig) \div 3

\* one step has moved a sample within the radius, and left at rest a sample at
\* the pointer's position and a sample exactly disperseRadius away
C18_Witness ==
  /\ pSteps = 1
  /\ pRadius > 0
  /\ \E i, j, k \in 1..(Len(pOrig) \div 3) :
       /\ Sample3(pVel, i - 1) # ZeroVector
       /\ WorldPos(j) = pMouse
       /\ StillAtRest(j)
       /\ DistSquared(WorldPos(k), pMouse) = pRadius * pRadius
       /\ StillAtRest(k)

\* ------------------------------------------------------------------------
\* Sources without leaf geometry, and the samples outside the skinned ranges
\* ------------------------------------------------------------------------
\* no Mesh with a position attribute anywhere below o
NoLeafGeometry(o) == MeshesUnder(o) = {}

EmptySet(g) ==
  /\ g.position = <<>>
  /\ g.originalPosition = <<>>
  /\ g.currentDisplacement = <<>>

\* C14: the extraction of a source without leaf geometry builds a set of zero
\* samples (position, originalPosition, displacement and velocity buffers of
\* length zero), and every later frame on that set leaves all its buffers and
\* the velocities as they are and steps no sample.
C14_EmptySourceEmptySet ==
  [][/\ (extractEffect' # extractEffect /\ extractEffect'.ran /\ NoLeafGeometry(object)) =>
          /\ EmptySet(geoms'[extractEffect'.geometry])
          /\ velocitiesRef' = [null |-> FALSE, array |-> <<>>]
          /\ setGeometry' = extractEffect'.geometry
     /\ (FrameStep /\ geometry # 0 /\ NoLeafGeometry(geoms[geometry].object)) =>
          /\ EmptySet(geoms[geometry])
          /\ geoms' = geoms
          /\ velocitiesRef' = velocitiesRef
          /\ lastFrame'.targets = <<>>]_vars

\* an interactive component mounted on a source without leaf geometry has
\* rendered its empty set, and a frame has run the physics on it
C14_Witness ==
  /\ geometry # 0
  /\ NoLeafGeometry(geoms[geometry].object)
  /\ EmptySet(geoms[geometry])
  /\ lastFrame.ran
  /\ lastFrame.physics
  /\ lastFrame.geometry = geometry
  /\ velocitiesRef = [null |-> FALSE, array |-> <<>>]

\* the skinned ranges recorded when set g was extracted
OwnRanges(g) == ExtractVertices(g.object, geo, g.sampleRate).skinnedMeshData

Listed(ranges, i) ==
  \E r \in 1..Len(ranges) : \E k \in 1..Len(ranges[r].indices) : ranges[r].indices[k] = i

\* C17: a frame never changes position or originalPosition of a sample that
\* is not listed in a skinned range of its set, and changes neither buffer of
\* a set that has no skinned range.
C17_UnskinnedSamplesKeepPosition ==
  [][(FrameStep /\ geometry # 0) =>
       LET g0 == geoms[geometry]
           g1 == geoms'[geometry]
           ranges == OwnRanges(g0)
       IN /\ \A i \in 0..(Len(g0.position) \div 3 - 1) :
               ~Listed(ranges, i) =>
                 /\ Sample3(g1.position, i) = Sample3(g0.position, i)
                 /\ Sample3(g1.originalPosition, i) = Sample3(g0.originalPosition, i)
          /\ ranges = <<>> =>
               /\ g1.position = g0.position
               /\ g1.originalPosition = g0.originalPosition]_vars

\* ------------------------------------------------------------------------
\* Particle color: the gradient uniforms (useMemo) and the fragment shader
\* ------------------------------------------------------------------------
MaxAnchors == 10     \* longest gradientColors list tried

\* const maxColors = 8; #define MAX_GRADIENT_COLORS 8
MaxColors == 8

\* Infinity of the bounds loop
Infinity == 1000000000

\* the color props: '#00ffff', and LightArray's '#ff0000' and '#0000ff'
ParticleColor == 65535

GradientColorStart == 16711680

GradientColorEnd == 255

MathMin(a, b) == IF a < b THEN a ELSE b

MathMax(a, b) == IF a > b THEN a ELSE b

\* new THREE.Color('#rrggbb'): the three channels as fractions of 255 (the
\* conversion to the working color space is left out)
HexColor(h) ==
  <<RoundDiv(((h \div 65536) % 256) * F, 255), RoundDiv(((h \div 256) % 256) * F, 255),
    RoundDiv((h % 256) * F, 255)>>

\* anchor i of a gradient: some color, at a corner of the unit cube
Anchor(i) ==
  [color |-> (i * 2396745) % 16777216,
   position |-> <<(i % 2) * F, ((i \div 2) % 2) * F, ((i \div 4) % 2) * F>>]

\* gradientColors: null, or a list of 0 .. MaxAnchors anchors
AnchorLists ==
  {[null |-> TRUE, list |-> <<>>]}
    \cup {[null |-> FALSE, list |-> [i \in 1..n |-> Anchor(i)]] : n \in 0..MaxAnchors}

UseMultiColor(gc) == ~gc.null /\ Len(gc.list) > 0

\* mutant: every anchor of the list is counted
ColorCountAll(gc) == IF UseMultiColor(gc) THEN Len(gc.list) ELSE 0

\* colorCount = Math.min(gradientColors.length, maxColors)
ColorCount(gc) == IF UseMultiColor(gc) THEN MathMin(Len(gc.list), MaxColors) ELSE 0

\* while (array.length < maxColors * 3) array.push(v, v, v)
RECURSIVE PadTriples(_, _)
PadTriples(arr, v) ==
  IF Len(arr) < MaxColors * 3 THEN PadTriples(arr \o <<v, v, v>>, v) ELSE arr

\* Particles.tsx: colorArray and positionArray, pushed anchor by anchor
PushedArrays(gc) ==
  IF UseMultiColor(gc)
  THEN [color |-> PadTriples(Flatten([i \in 1..ColorCount(gc) |-> HexColor(gc.list[i].color)]), F),
        position |-> PadTriples(Flatten([i \in 1..ColorCount(gc) |-> gc.list[i].position]), 0)]
  ELSE [color |-> [k \in 1..(MaxColors * 3) |-> F], position |-> Zeros(MaxColors * 3)]

\* LightArray.tsx: arrays of 8 entries filled with (1, 1, 1) and (0, 0, 0),
\* then overwritten anchor by anchor
FilledArrays(gc) ==
  [color |-> [k \in 1..24 |->
                IF (k - 1) \div 3 < ColorCount(gc)
                THEN HexColor(gc.list[((k - 1) \div 3) + 1].color)[((k - 1) % 3) + 1] ELSE F],
   position |-> [k \in 1..24 |->
                IF (k - 1) \div 3 < ColorCount(gc)
                THEN gc.list[((k - 1) \div 3) + 1].position[((k - 1) % 3) + 1] ELSE 0]]

\* the bounds loop of the extraction effect
RECURSIVE BoundsLoop(_, _, _)
BoundsLoop(originalPositions, i, b) ==
  IF i >= Len(originalPositions) THEN b
  ELSE BoundsLoop(originalPositions, i + 3,
         [min |-> [c \in 1..3 |-> MathMin(b.min[c], originalPositions[i + c])],
          max |-> [c \in 1..3 |-> MathMax(b.max[c], originalPositions[i + c])]])

\* particleGeometry.userData.bounds
Bounds(originalPositions) ==
  BoundsLoop(originalPositions, 0,
             [min |-> <<Infinity, Infinity, Infinity>>,
              max |-> <<-Infinity, -Infinity, -Infinity>>])

\* geometry?.userData.bounds || { min: (-1, -1, -1), max: (1, 1, 1) }
MaterialBounds(hasGeometry, originalPositions) ==
  IF hasGeometry THEN Bounds(originalPositions)
  ELSE [min |-> <<-F, -F, -F>>, max |-> <<F, F, F>>]

\* the uniforms of new THREE.ShaderMaterial that the fragment shader reads
MakeMaterial(variant, gc, use3D, hasGeometry, originalPositions) ==
  LET arrays == IF variant = "Particles" THEN PushedArrays(gc) ELSE FilledArrays(gc)
      bounds == MaterialBounds(hasGeometry, originalPositions)
  IN [color |-> HexColor(ParticleColor),
      use3DGradient |-> use3D,
      gradientColorStart |-> HexColor(GradientColorStart),
      gradientColorEnd |-> HexColor(GradientColorEnd),
      boundsMin |-> bounds.min,
      boundsMax |-> bounds.max,
      useMultiColorGradient |-> UseMultiColor(gc),
      gradientColorCount |-> ColorCount(gc),
      gradientColorArray |-> arrays.color,
      gradientPositionArray |-> arrays.position]

\* mutant: an extent of zero is raised to one unit
ExtentClamped(bmin, bmax) == [c \in 1..3 |-> MathMax(bmax[c] - bmin[c], 1)]

\* boundsMax - boundsMin
Extent(bmin, bmax) == [c \in 1..3 |-> bmax[c] - bmin[c]]

\* what a division by zero in the shader may leave in a component after the
\* clamp: GLSL leaves the quotient undefined
UndefinedQuotients == {0, F, NaN}

\* normalizedPos = clamp((vOriginalPosition - boundsMin) / (boundsMax - boundsMin), 0, 1)
NormalizedPos(v, bmin, bmax, u) ==
  [c \in 1..3 |->
     LET ext == Extent(bmin, bmax)[c]
     IN IF ext = 0 THEN u
        ELSE MathMax(0, MathMin(F, RoundDiv((v[c] - bmin[c]) * F, ext)))]

\* for (int i = 0; i < MAX_GRADIENT_COLORS; i++) { if (i >= gradientColorCount) break; ... }
\* with gradientBlendPower = 2.0
RECURSIVE BlendLoop(_, _, _, _)
BlendLoop(mat, n, i, st) ==
  IF i >= MaxColors \/ i >= mat.gradientColorCount THEN st
  ELSE LET colorPos == Sample3(mat.gradientPositionArray, i)
           col == Sample3(mat.gradientColorArray, i)
           dist == Sqrt(DistSquared(n, colorPos))
           weight == RoundDiv(F * F * F, (dist + 100) * (dist + 100))
       IN BlendLoop(mat, n, i + 1,
                    [acc |-> [c \in 1..3 |-> st.acc[c] + RoundDiv(col[c] * weight, F)],
                     total |-> st.total + weight])

\* the multi-color branch: NaN weights fail totalWeight > 0.0
Blend(mat, n) ==
  IF \E c \in 1..3 : n[c] = NaN THEN mat.color
  ELSE LET st == BlendLoop(mat, n, 0, [acc |-> <<0, 0, 0>>, total |-> 0])
       IN IF st.total > 0 THEN [c \in 1..3 |-> RoundDiv(st.acc[c] * F, st.total)]
          ELSE mat.color

\* LightArray.tsx, the two-color branch with gradientAxis 'y':
\* mix(gradientColorStart, gradientColorEnd, smoothstep(0, 1, normalizedPos.y))
TwoColorGradient(mat, n) ==
  IF n[2] = NaN THEN <<NaN, NaN, NaN>>
  ELSE LET t == n[2]
           s == RoundDiv(RoundDiv(t * t, F) * (3 * F - 2 * t), F)
       IN [c \in 1..3 |->
             RoundDiv(mat.gradientColorStart[c] * (F - s) + mat.gradientColorEnd[c] * s, F)]

\* which gradient block the shader enters: "blend", "twoColor" or "none"
GradientBranch(variant, mat) ==
  IF variant = "Particles"
  THEN IF mat.use3DGradient /\ mat.useMultiColorGradient /\ mat.gradientColorCount > 0
       THEN "blend" ELSE "none"
  ELSE IF mat.use3DGradient
       THEN IF mat.useMultiColorGradient /\ mat.gradientColorCount > 0
            THEN "blend" ELSE "twoColor"
       ELSE "none"

\* finalColor before the glow intensity is applied
ResolveColor(variant, mat, v, u) ==
  LET n == NormalizedPos(v, mat.boundsMin, mat.boundsMax, u)
      branch == GradientBranch(variant, mat)
  IN IF branch = "blend" THEN Blend(mat, n)
     ELSE IF branch = "twoColor" THEN TwoColorGradient(mat, n)
     ELSE mat.color

\* gl_PointCoord of the fragments shaded: the centre of the point, halfway to
\* its edge, and a corner
PointCoords == {<<500, 500>>, <<750, 500>>, <<1000, 1000>>}

\* length(gl_PointCoord - vec2(0.5))
CenterDist(coord) ==
  Sqrt((coord[1] - 500) * (coord[1] - 500) + (coord[2] - 500) * (coord[2] - 500))

\* originalPositions of the sets shaded: one sample; two samples with the same
\* z; two samples that differ on every axis
ColorSets ==
  {<<F, 2 * F, 3 * F>>, <<0, 0, 0, F, F, 0>>, <<-F, 0, F, F, 2 * F, 3 * F>>}

\* the first render: geometry is still null, the material has the default bounds
InitColor ==
  /\ geo = SceneGeo
  /\ ComponentIdle
  /\ returnSpeed = 3
  /\ SweepIdle
  /\ SpringIdle
  /\ StepIdle
  /\ TexIdle
  /\ CatIdle
  /\ cVariant \in {"Particles", "LightArray"}
  /\ cGradientColors \in AnchorLists
  /\ cUse3DGradient \in BOOLEAN
  /\ cPositions \in ColorSets
  /\ cGeometry = FALSE
  /\ cMaterial = MakeMaterial(cVariant, cGradientColors, cUse3DGradient, FALSE, cPositions)
  /\ cFragment = <<>>

\* the render after setGeometry: useMemo builds the material again
GeometryRender ==
  /\ ~cGeometry
  /\ cGeometry' = TRUE
  /\ cMaterial' = MakeMaterial(cVariant, cGradientColors, cUse3DGradient, TRUE, cPositions)
  /\ UNCHANGED <<geo, compVars, sweepVars, springVars, stepVars, texVars, catVars, cVariant,
                 cGradientColors, cUse3DGradient, cPositions, cFragment>>

\* the fragment shader, for one fragment of the point of sample i
Shade(i, coord, u) ==
  /\ cGeometry
  /\ LET v == Sample3(cPositions, i)
         dist == CenterDist(coord)
         q == F - 2 * dist
         intensity == RoundDiv(q * q, F)
         branch == GradientBranch(cVariant, cMaterial)
         finalColor == ResolveColor(cVariant, cMaterial, v, u)
     IN cFragment' =
          IF dist > 500
          THEN [discarded |-> TRUE, sample |-> i]
          ELSE [discarded |-> FALSE, sample |-> i,
                branch |-> branch,
                divisor |-> IF branch = "none" THEN <<>>
                            ELSE Extent(cMaterial.boundsMin, cMaterial.boundsMax),
                resolved |-> finalColor,
                color |-> [c \in 1..3 |->
                             IF finalColor[c] = NaN THEN NaN
                             ELSE RoundDiv(finalColor[c] * intensity, F)],
                alpha |-> intensity]
  /\ UNCHANGED <<geo, compVars, sweepVars, springVars, stepVars, texVars, catVars, cVariant,
                 cGradientColors, cUse3DGradient, cPositions, cGeometry, cMaterial>>

NextColor ==
  \/ GeometryRender
  \/ \E i \in 0..((Len(cPositions) \div 3) - 1), coord \in PointCoords,
        u \in UndefinedQuotients : Shade(i, coord, u)

SpecColor == InitColor /\ [][NextColor]_vars

Shaded == cFragment # <<>> /\ ~cFragment.discarded

NoAnchors == cGradientColors.null \/ cGradientColors.list = <<>>

\* C11: in every variant, when gradientColors is null or empty the resolved
\* color is the flat particle color whatever use3DGradient is, and the
\* inverse-distance blend is applied only when there is an anchor.
C11_FlatColorWithoutAnchors ==
  Shaded =>
    /\ NoAnchors => cFragment.resolved = HexColor(ParticleColor)
    /\ cFragment.branch = "blend" => ~NoAnchors

\* the first eight anchors of the list (all of them when there are fewer)
FirstAnchors(gc) ==
  [null |-> gc.null, list |-> SubSeq(gc.list, 1, MathMin(Len(gc.list), 8))]

\* C12: for a list of any length n the material uses the first min(n, 8)
\* anchors in order: gradientColorCount = min(n, 8), both uniform arrays hold
\* 24 numbers, entry i < count is anchor i and the rest is padding, and the
\* resolved color is the one the first eight anchors alone give.
C12_FirstEightAnchorsOnly ==
  LET n == Len(cGradientColors.list)
      count == cMaterial.gradientColorCount
  IN /\ count = MathMin(n, 8)
     /\ Len(cMaterial.gradientColorArray) = 24
     /\ Len(cMaterial.gradientPositionArray) = 24
     /\ \A i \in 0..7 :
          /\ Sample3(cMaterial.gradientColorArray, i) =
               IF i < count THEN HexColor(cGradientColors.list[i + 1].color)
               ELSE <<F, F, F>>
          /\ Sample3(cMaterial.gradientPositionArray, i) =
               IF i < count THEN cGradientColors.list[i + 1].position ELSE <<0, 0, 0>>
     /\ cMaterial = MakeMaterial(cVariant, FirstAnchors(cGradientColors), cUse3DGradient,
                                 cGeometry, cPositions)
     /\ Shaded =>
          \E u \in UndefinedQuotients :
            cFragment.resolved =
              ResolveColor(cVariant,
                           MakeMaterial(cVariant, FirstAnchors(cGradientColors),
                                        cUse3DGradient, TRUE, cPositions),
                           Sample3(cPositions, cFragment.sample), u)

\* a list of ten anchors has been given, and a fragment has been shaded with
\* the blend of the first eight
C12_Witness ==
  /\ Len(cGradientColors.list) = 10
  /\ cMaterial.gradientColorCount = 8
  /\ Shaded
  /\ cFragment.branch = "blend"
  /\ cFragment.resolved # HexColor(ParticleColor)

\* all samples of the set have the same coordinate on axis c
SharedCoordinate(c) ==
  \A i, j \in 0..((Len(cPositions) \div 3) - 1) :
    Sample3(cPositions, i)[c] = Sample3(cPositions, j)[c]

\* C15: when all samples share a coordinate on some axis, the bounds stored
\* with the geometry have max = min on that axis, the material's bounds
\* uniforms are those bounds, and the normalization of the gradient divides by
\* that zero extent as it is.
C15_ZeroExtentDividesByZero ==
  \A c \in 1..3 :
    SharedCoordinate(c) =>
      /\ Bounds(cPositions).max[c] = Bounds(cPositions).min[c]
      /\ cGeometry => cMaterial.boundsMax[c] = cMaterial.boundsMin[c]
      /\ (Shaded /\ cFragment.branch # "none") => cFragment.divisor[c] = 0

\* a gradient fragment of a one-sample set has been shaded: every divisor of
\* the normalization was zero
C15_Witness ==
  /\ Shaded
  /\ Len(cPositions) = 3
  /\ cFragment.branch = "blend"
  /\ cFragment.divisor = <<0, 0, 0>>

\* ------------------------------------------------------------------------
\* useTexturedMaterial: fallback material, texture load, late callbacks
\* ------------------------------------------------------------------------
MaxEffects == 3      \* runs of the hook's effect

\* texturePath: 0 for undefined (or ''), else the path of an image
TexturePaths == {0, 1, 2}

\* no effect has run yet
NoDeps == -1

\* the first render: material null, isTextureLoaded false, effect not yet run
InitTexture ==
  /\ geo = SceneGeo
  /\ ComponentIdle
  /\ returnSpeed = 3
  /\ SweepIdle
  /\ SpringIdle
  /\ StepIdle
  /\ ColorIdle
  /\ CatIdle
  /\ tPath \in TexturePaths
  /\ tDeps = NoDeps
  /\ tMaterial = [kind |-> "null", run |-> 0]
  /\ tLoaded = FALSE
  /\ tLoads = <<>>
  /\ tWarnings = 0
  /\ tMounted = TRUE
  /\ tDisposed = {}

\* the caller renders the hook with another texturePath
TextureRender(p) ==
  /\ tMounted
  /\ tDeps = tPath
  /\ p # tPath
  /\ Len(tLoads) < MaxEffects
  /\ tPath' = p
  /\ UNCHANGED <<geo, compVars, sweepVars, springVars, stepVars, colorVars, catVars, tDeps,
                 tMaterial, tLoaded, tLoads, tWarnings, tMounted, tDisposed>>

\* the effect after a render that changed texturePath: the cleanup of the
\* previous run disposes its fallback material; the body installs a new
\* fallback material and starts the load when there is a path
TextureEffect ==
  /\ tMounted
  /\ tDeps # tPath
  /\ LET run == Len(tLoads) + 1
     IN /\ tDisposed' = IF run > 1 THEN tDisposed \cup {run - 1} ELSE tDisposed
        /\ tMaterial' = [kind |-> "fallback", run |-> run]
        /\ tLoaded' = FALSE
        /\ tLoads' = Append(tLoads, [path |-> tPath,
                                     status |-> IF tPath # 0 THEN "pending" ELSE "none"])
  /\ tDeps' = tPath
  /\ UNCHANGED <<geo, compVars, sweepVars, springVars, stepVars, colorVars, catVars, tPath,
                 tWarnings, tMounted>>

\* the success callback of the load started by effect run r (state setters of
\* an unmounted component do nothing)
LoadSuccess(r) ==
  /\ r \in 1..Len(tLoads)
  /\ tLoads[r].status = "pending"
  /\ tLoads' = [tLoads EXCEPT ![r].status = "loaded"]
  /\ tMaterial' = IF tMounted THEN [kind |-> "textured", run |-> r] ELSE tMaterial
  /\ tLoaded' = IF tMounted THEN TRUE ELSE tLoaded
  /\ UNCHANGED <<geo, compVars, sweepVars, springVars, stepVars, colorVars, catVars, tPath,
                 tDeps, tWarnings, tMounted, tDisposed>>

\* the error callback of the load started by effect run r
LoadError(r) ==
  /\ r \in 1..Len(tLoads)
  /\ tLoads[r].status = "pending"
  /\ tLoads' = [tLoads EXCEPT ![r].status = "failed"]
  /\ tWarnings' = tWarnings + 1
  /\ tLoaded' = IF tMounted THEN FALSE ELSE tLoaded
  /\ UNCHANGED <<geo, compVars, sweepVars, springVars, stepVars, colorVars, catVars, tPath,
                 tDeps, tMaterial, tMounted, tDisposed>>

\* unmount: the cleanup of the last effect run
TextureUnmount ==
  /\ tMounted
  /\ tDeps = tPath
  /\ tMounted' = FALSE
  /\ tDisposed' = tDisposed \cup {Len(tLoads)}
  /\ UNCHANGED <<geo, compVars, sweepVars, springVars, stepVars, colorVars, catVars, tPath,
                 tDeps, tMaterial, tLoaded, tLoads, tWarnings>>

NextTexture ==
  \/ \E p \in TexturePaths : TextureRender(p)
  \/ TextureEffect
  \/ \E r \in 1..MaxEffects : LoadSuccess(r)
  \/ \E r \in 1..MaxEffects : LoadError(r)
  \/ TextureUnmount

SpecTexture == InitTexture /\ [][NextTexture]_vars

\* the load for the texturePath of the last render has failed
CurrentLoadFailed ==
  /\ tMounted
  /\ tDeps = tPath
  /\ tLoads # <<>>
  /\ tLoads[Len(tLoads)].status = "failed"

\* C16: when the load of the texture for the current texturePath has failed,
\* the hook's material is the fallback-color material and isTextureLoaded is
\* false; each failure has logged one warning and nothing else.
C16_FailedLoadLeavesFallback ==
  /\ CurrentLoadFailed => (tMaterial.kind = "fallback" /\ ~tLoaded)
  /\ tWarnings = Cardinality({r \in 1..Len(tLoads) : tLoads[r].status = "failed"})

\* ------------------------------------------------------------------------
\* RunningCatScene: scroll position, running / idle, turning
\* ------------------------------------------------------------------------
\* Angles and positions are kept in thousandths, times in milliseconds.  A
\* state update made by a handler is followed by its render and by the effects
\* of that render before the next timer or event is handled.
MaxScrolls == 5      \* scroll events of one visit

\* Math.PI / 2, Math.PI, Math.PI * 2
HalfPi == 1571

Pi == 3142

TwoPi == 6283

\* baseViewportWidth
BaseViewportWidth == 25

\* window.innerWidth of the visit
ScreenWidth == 1280

\* positionChanged: > 0.01; turn complete: |diff| < 0.01; stable angle: < 0.1
MoveEps == 10

TurnEps == 10

StableTolerance == 100

\* rotationSpeed = 0.12, in hundredths
RotationSpeed == 12

\* setTimeout(..., 150), setInterval(..., 50), setTimeout(..., 3000),
\* setInterval(animateRotation, 16)
IdleDelay == 150

IdleCheckDelay == 50

FailsafeDelay == 3000

RotationDelay == 16

\* a timer that is not set (or was cleared, or has fired)
Off == -1

\* a % b of JavaScript: the sign of the dividend
JsRem(a, b) == IF a >= 0 THEN a % b ELSE -((-a) % b)

\* normalized = ((rotation % 2pi) + 2pi) % 2pi; adjusted = normalized > pi ? normalized - 2pi : normalized
Adjusted(rotation) ==
  LET normalized == JsRem(JsRem(rotation, TwoPi) + TwoPi, TwoPi)
  IN IF normalized > Pi THEN normalized - TwoPi ELSE normalized

isAtStableFacingAngle(rotation) ==
  \/ Abs(Adjusted(rotation) - HalfPi) < StableTolerance
  \/ Abs(Adjusted(rotation) + HalfPi) < StableTolerance

viewportWidth(w) ==
  IF w < 640 THEN (BaseViewportWidth * 12 * F) \div 10
  ELSE IF w < 1024 THEN (BaseViewportWidth * 11 * F) \div 10
  ELSE BaseViewportWidth * F

startX(w) == -viewportWidth(w)

endX(w) == viewportWidth(w) * 2

\* horizontalPosition = startX + scrollProgress * (endX - startX)
horizontalPosition(c) ==
  startX(c.screenWidth)
    + RoundDiv(c.scrollProgress * (endX(c.screenWidth) - startX(c.screenWidth)), F)

\* the dependency lists of the movement effect and of the rotation effect
MovementDeps(c) == <<horizontalPosition(c), c.facingRight, c.isMoving>>

RotationDeps(c) == <<c.targetRotation, c.isMoving>>

\* what a render shows
RenderState(c) ==
  <<c.scrollProgress, c.isMoving, c.facingRight, c.targetRotation, c.currentRotation,
    c.screenWidth>>

\* the cleanups of the effects whose dependencies changed with render r
Cleanups(r, c) ==
  [c EXCEPT !.moveTimeoutRef = IF MovementDeps(r) # c.movementDeps THEN Off ELSE @,
            !.rotationInterval = IF RotationDeps(r) # c.rotationDeps THEN Off ELSE @]

\* useEffect(() => { previousPositionRef.current = startX }, [startX])
StartEffect(r, c) ==
  [c EXCEPT !.previousPositionRef = startX(r.screenWidth), !.startDeps = startX(r.screenWidth)]

\* the body of the movement effect, with the state of render r
MovementEffect(r, c) ==
  LET pos == horizontalPosition(r)
      positionChanged == Abs(pos - c.previousPositionRef) > MoveEps
      movingRight == pos > c.previousPositionRef
      directionChanged == movingRight # r.facingRight
      turn == directionChanged /\ ~c.isTurningRef
      d == [c EXCEPT !.movementDeps = MovementDeps(r)]
  IN IF ~positionChanged THEN d
     ELSE [d EXCEPT !.isMoving = TRUE,
                    !.isTurningRef = IF turn THEN TRUE ELSE @,
                    !.targetRotation = IF turn THEN (IF movingRight THEN HalfPi ELSE -HalfPi)
                                       ELSE @,
                    !.facingRight = IF turn THEN movingRight ELSE @,
                    !.previousPositionRef = pos,
                    !.moveTimeoutRef = IdleDelay,
                    !.timeoutIsMoving = r.isMoving]

\* mutant: the rotation is animated also while the cat is idle
RotationEffectAlways(r, c) ==
  [c EXCEPT !.rotationDeps = RotationDeps(r), !.rotationInterval = RotationDelay]

\* the body of the rotation effect, with the state of render r
RotationEffect(r, c) ==
  LET d == [c EXCEPT !.rotationDeps = RotationDeps(r)]
      snappedRotation == IF Adjusted(r.targetRotation) > 0 THEN HalfPi ELSE -HalfPi
  IN IF ~r.isMoving /\ ~c.isTurningRef
     THEN [d EXCEPT !.currentRotation = snappedRotation,
                    !.currentRotationRef = snappedRotation]
     ELSE [d EXCEPT !.rotationInterval = RotationDelay]

\* the effects of one render: the cleanups, then the bodies in order
RunEffects(r) ==
  LET c0 == Cleanups(r, r)
      c1 == IF startX(r.screenWidth) # r.startDeps THEN StartEffect(r, c0) ELSE c0
      c2 == IF MovementDeps(r) # r.movementDeps THEN MovementEffect(r, c1) ELSE c1
  IN IF RotationDeps(r) # r.rotationDeps THEN RotationEffect(r, c2) ELSE c2

\* render, run the effects, and render again while the effects set state
RECURSIVE Commit(_)
Commit(c) ==
  LET d == RunEffects(c)
  IN IF RenderState(d) = RenderState(c) THEN d ELSE Commit(d)

\* scrollProgress as handleScroll clamps it, and the times between two scroll
\* events
ScrollStops == {0, F \div 2, F}

ScrollGaps == {100, 3000}

\* the mounted scene at the top of the page, after the effects of the mount
MountedCat ==
  [scrollProgress |-> 0, isMoving |-> FALSE, facingRight |-> TRUE,
   targetRotation |-> HalfPi, currentRotation |-> HalfPi, screenWidth |-> ScreenWidth,
   previousPositionRef |-> startX(ScreenWidth), moveTimeoutRef |-> Off,
   timeoutIsMoving |-> FALSE, currentRotationRef |-> HalfPi, isTurningRef |-> FALSE,
   startDeps |-> startX(ScreenWidth),
   movementDeps |-> <<startX(ScreenWidth), TRUE, FALSE>>,
   rotationDeps |-> <<HalfPi, FALSE>>,
   rotationInterval |-> Off, idleChecks |-> <<>>]

InitCat ==
  /\ geo = SceneGeo
  /\ ComponentIdle
  /\ returnSpeed = 3
  /\ SweepIdle
  /\ SpringIdle
  /\ StepIdle
  /\ ColorIdle
  /\ TexIdle
  /\ cat = MountedCat
  /\ user \in {[wait |-> w, left |-> MaxScrolls] : w \in ScrollGaps}
  /\ past = [turnOpen |-> FALSE, movedRight |-> TRUE, superseded |-> <<>>]
  /\ PageIdle

\* the times left on the timers that are set, and to the next scroll event
Pending ==
  ({cat.moveTimeoutRef, cat.rotationInterval, user.wait}
     \cup {cat.idleChecks[k].interval : k \in 1..Len(cat.idleChecks)}
     \cup {cat.idleChecks[k].failsafe : k \in 1..Len(cat.idleChecks)}) \ {Off}

Less(t, d) == IF t = Off THEN Off ELSE t - d

CatUnchanged ==
  UNCHANGED <<geo, compVars, sweepVars, springVars, stepVars, colorVars, texVars, page>>

\* time passes until the next timer or scroll event is due
Elapse ==
  /\ Pending # {}
  /\ 0 \notin Pending
  /\ LET d == CHOOSE t \in Pending : \A q \in Pending : t <= q
     IN /\ cat' = [cat EXCEPT !.moveTimeoutRef = Less(@, d),
                              !.rotationInterval = Less(@, d),
                              !.idleChecks = [k \in 1..Len(@) |->
                                 [@[k] EXCEPT !.interval = Less(@, d),
                                              !.failsafe = Less(@, d)]]]
        /\ user' = [user EXCEPT !.wait = Less(@, d)]
  /\ UNCHANGED past
  /\ CatUnchanged

\* handleScroll sets scrollProgress to p; the visitor scrolls again after w, or
\* stops
Scroll(p, w) ==
  /\ user.wait = 0
  /\ p # cat.scrollProgress
  /\ w = Off <=> user.left = 1
  /\ cat' = Commit([cat EXCEPT !.scrollProgress = p])
  /\ user' = [wait |-> w, left |-> user.left - 1]
  /\ past' = [turnOpen |-> past.turnOpen \/ (cat'.isTurningRef /\ ~cat.isTurningRef),
              movedRight |-> p > cat.scrollProgress,
              superseded |-> [k \in 1..Len(past.superseded) |-> TRUE]]
  /\ CatUnchanged

\* the visitor stops scrolling
StopScrolling ==
  /\ user.wait = 0
  /\ user' = [user EXCEPT !.wait = Off]
  /\ UNCHANGED <<cat, past>>
  /\ CatUnchanged

\* the callback of moveTimeoutRef's timeout
MoveTimeout ==
  /\ cat.moveTimeoutRef = 0
  /\ LET c == [cat EXCEPT !.moveTimeoutRef = Off]
     IN cat' =
          IF ~cat.isTurningRef /\ isAtStableFacingAngle(cat.currentRotationRef)
          THEN Commit([c EXCEPT !.isMoving = FALSE])
          ELSE [c EXCEPT !.idleChecks =
                  Append(@, [interval |-> IdleCheckDelay, failsafe |-> FailsafeDelay,
                             isMoving |-> cat.timeoutIsMoving])]
  /\ past' = [past EXCEPT !.superseded =
                IF Len(cat'.idleChecks) > Len(cat.idleChecks) THEN Append(@, FALSE) ELSE @]
  /\ UNCHANGED user
  /\ CatUnchanged

\* one run of idleCheckInterval's callback
IdleCheck(k) ==
  /\ k \in 1..Len(cat.idleChecks)
  /\ cat.idleChecks[k].interval = 0
  /\ cat' =
       IF ~cat.isTurningRef /\ isAtStableFacingAngle(cat.currentRotationRef)
       THEN Commit([cat EXCEPT !.isMoving = FALSE, !.idleChecks[k].interval = Off])
       ELSE [cat EXCEPT !.idleChecks[k].interval = IdleCheckDelay]
  /\ UNCHANGED <<user, past>>
  /\ CatUnchanged

\* the failsafe timeout: isMoving is the value of the render whose effect set
\* the idle timeout
Failsafe(k) ==
  /\ k \in 1..Len(cat.idleChecks)
  /\ cat.idleChecks[k].failsafe = 0
  /\ LET rest == [j \in 1..(Len(cat.idleChecks) - 1) |->
                    IF j < k THEN cat.idleChecks[j] ELSE cat.idleChecks[j + 1]]
         c == [cat EXCEPT !.idleChecks = rest]
     IN cat' = IF cat.idleChecks[k].isMoving
               THEN Commit([c EXCEPT !.isMoving = FALSE, !.isTurningRef = FALSE])
               ELSE c
  /\ past' = [past EXCEPT !.superseded =
                [j \in 1..(Len(@) - 1) |-> IF j < k THEN @[j] ELSE @[j + 1]]]
  /\ UNCHANGED user
  /\ CatUnchanged

\* animateRotation: one run of the rotation interval
AnimateRotation ==
  /\ cat.rotationInterval = 0
  /\ LET diff == cat.targetRotation - cat.currentRotation
         c == [cat EXCEPT !.rotationInterval = RotationDelay]
     IN cat' =
          IF Abs(diff) < TurnEps
          THEN Commit([c EXCEPT !.isTurningRef = FALSE,
                                !.currentRotationRef = Adjusted(cat.targetRotation),
                                !.currentRotation = Adjusted(cat.targetRotation)])
          ELSE LET newRotation == cat.currentRotation + RoundDiv(diff * RotationSpeed, 100)
               IN Commit([c EXCEPT !.currentRotationRef = newRotation,
                                   !.currentRotation = newRotation])
  /\ past' = [past EXCEPT !.turnOpen =
                @ /\ ~(Abs(cat.targetRotation - cat.currentRotation) < TurnEps)]
  /\ UNCHANGED user
  /\ CatUnchanged

\* the timers of the page: time passes and due callbacks run
Timers ==
  \/ Elapse
  \/ MoveTimeout
  \/ \E k \in 1..MaxScrolls : IdleCheck(k)
  \/ \E k \in 1..MaxScrolls : Failsafe(k)
  \/ AnimateRotation

NextCat ==
  \/ \E p \in ScrollStops, w \in ScrollGaps \cup {Off} : Scroll(p, w)
  \/ StopScrolling
  \/ Timers

\* the browser runs every handler that is due, and the visitor either scrolls
\* again or stops
SpecCat == InitCat /\ [][NextCat]_vars /\ WF_vars(NextCat)

\* C19: once there are no further scroll events, isMoving eventually becomes
\* false (the idle model /cat_idle.glb is shown), also when the last scroll
\* switched isMoving to true or changed facingRight.
C19_EventuallyIdle == (user.wait = Off) ~> (~cat.isMoving)

\* C20: isMoving is set to false only at a moment when no turn is in progress
\* and the current rotation is within 0.1 of +pi/2 or -pi/2.
C20_IdleOnlyWhenStable ==
  [][(cat.isMoving /\ ~cat'.isMoving) =>
       (~cat.isTurningRef /\ isAtStableFacingAngle(cat.currentRotationRef))]_vars

\* ------------------------------------------------------------------------
\* The buffers a physics frame steps
\* ------------------------------------------------------------------------
\* C27: in every frame in which the repulsion simulation runs, the velocity
\* buffer and the displacement buffer belong to the same set (the rendered
\* geometry is the one the latest extraction built velocitiesRef for) and have
\* the same length.
C27_FrameStepsOneSet ==
  [][(PhysicsGuard(interactive, geometry, velocitiesRef) /\ FrameStep) =>
       /\ geometry = extractEffect.geometry
       /\ Len(velocitiesRef.array) = Len(geoms[geometry].currentDisplacement)]_vars

\* ------------------------------------------------------------------------
\* RunningCatScene: turns, the idle pose and late timers
\* ------------------------------------------------------------------------
\* a step that changes the facing the cat turns to
TurnBegins ==
  cat'.targetRotation # cat.targetRotation \/ cat'.facingRight # cat.facingRight

\* C21: a turn (a change of targetRotation and facingRight) begins only while
\* isTurningRef is false and the position is changing, and never between the
\* start of an earlier turn and the step in which animateRotation reports that
\* turn complete.
C21_NoTurnDuringTurn ==
  [][TurnBegins =>
       /\ cat'.targetRotation # cat.targetRotation
       /\ cat'.facingRight # cat.facingRight
       /\ ~cat.isTurningRef
       /\ horizontalPosition(cat') # horizontalPosition(cat)
       /\ ~past.turnOpen]_vars

\* C22: every turn that begins is eventually reported complete by
\* animateRotation, with currentRotation within 0.01 of targetRotation and
\* isTurningRef false again.
C22_TurnCompletes ==
  past.turnOpen ~>
    (/\ ~past.turnOpen
     /\ ~cat.isTurningRef
     /\ Abs(cat.targetRotation - cat.currentRotation) < TurnEps)

Idle == ~cat.isMoving /\ ~cat.isTurningRef

\* C23: whenever the cat is idle, currentRotation and currentRotationRef are
\* exactly +pi/2 or -pi/2 by the sign of targetRotation, and the rotation
\* interval is not running.
C23_IdlePoseIsSnapped ==
  Idle =>
    /\ cat.currentRotation = IF cat.targetRotation > 0 THEN HalfPi ELSE -HalfPi
    /\ cat.currentRotationRef = cat.currentRotation
    /\ cat.rotationInterval = Off

\* the cat has turned to the left and has come to rest there
C23_Witness ==
  /\ Idle
  /\ cat.targetRotation = -HalfPi
  /\ cat.currentRotation = -HalfPi
  /\ cat.scrollProgress # 0

\* C25: whenever the cat is idle, facingRight and the facing of targetRotation
\* are the direction of the most recent change of the horizontal position.
C25_IdleFacesLastDirection ==
  Idle =>
    /\ cat.facingRight = past.movedRight
    /\ cat.targetRotation = IF past.movedRight THEN HalfPi ELSE -HalfPi

\* C26: an idle-check interval or failsafe timeout that was scheduled before
\* the position changed again neither sets isMoving to false nor clears
\* isTurningRef.
C26_LateTimersDoNothing ==
  [][\A k \in 1..Len(cat.idleChecks) :
       (past.superseded[k] /\ (IdleCheck(k) \/ Failsafe(k))) =>
         /\ cat.isMoving => cat'.isMoving
         /\ cat.isTurningRef => cat'.isTurningRef]_vars

\* ------------------------------------------------------------------------
\* RunningCatScene: handleScroll and the resize listener
\* ------------------------------------------------------------------------
MaxPageEvents == 3   \* scroll and resize events after the mount

\* window.innerWidth and window.innerHeight
InnerWidths == {500, 800, 1280}

InnerHeights == {0, 150, 800}

\* window.scrollY
ScrollYs == {0, 300, 500, 900, 1200, 1400}

\* the distance of the container from the top of the document, and
\* containerRef.current.offsetTop (smaller when an ancestor is positioned)
DocumentTops == {1000}

OffsetTops == {0, 1000}

\* h-[200px] sm:h-[250px] md:h-[300px]
ContainerHeight(w) == IF w < 640 THEN 200 ELSE IF w < 768 THEN 250 ELSE 300

\* mutant: the progress is not clamped
handleScrollUnclamped(pg, y) ==
  LET top == pg.documentTop - y
      height == ContainerHeight(pg.innerWidth)
      bottom == top + height
      windowHeight == pg.innerHeight
  IN IF top >= 0 /\ bottom <= windowHeight
     THEN [scrollProgress |-> RoundDiv((y - (pg.offsetTop - windowHeight + height)) * F,
                                       windowHeight),
           visible |-> "fully"]
     ELSE IF top > windowHeight THEN [scrollProgress |-> 0, visible |-> "below"]
     ELSE IF bottom < 0 THEN [scrollProgress |-> F, visible |-> "above"]
     ELSE [scrollProgress |-> pg.scrollProgress, visible |-> "partly"]

\* handleScroll with window.scrollY = y: the new scrollProgress, and which
\* branch was taken
handleScroll(pg, y) ==
  LET top == pg.documentTop - y
      height == ContainerHeight(pg.innerWidth)
      bottom == top + height
      windowHeight == pg.innerHeight
      scrolledPastFullView == y - (pg.offsetTop - windowHeight + height)
  IN IF top >= 0 /\ bottom <= windowHeight
     THEN [scrollProgress |->
             MathMax(0, MathMin(F, RoundDiv(scrolledPastFullView * F, windowHeight))),
           visible |-> "fully"]
     ELSE IF top > windowHeight THEN [scrollProgress |-> 0, visible |-> "below"]
     ELSE IF bottom < 0 THEN [scrollProgress |-> F, visible |-> "above"]
     ELSE [scrollProgress |-> pg.scrollProgress, visible |-> "partly"]

\* the page after the mount: scrollProgress starts at 0, the resize effect has
\* set screenWidth and handleScroll has run once
InitPage ==
  /\ geo = SceneGeo
  /\ ComponentIdle
  /\ returnSpeed = 3
  /\ SweepIdle
  /\ SpringIdle
  /\ StepIdle
  /\ ColorIdle
  /\ TexIdle
  /\ cat = <<>>
  /\ user = <<>>
  /\ past = <<>>
  /\ \E w \in InnerWidths, h \in InnerHeights, y \in ScrollYs, d \in DocumentTops,
        o \in OffsetTops :
       LET pg == [innerWidth |-> w, innerHeight |-> h, scrollY |-> y, documentTop |-> d,
                  offsetTop |-> o, screenWidth |-> w, scrollProgress |-> 0]
           hs == handleScroll(pg, y)
       IN page = [pg EXCEPT !.scrollProgress = hs.scrollProgress]
                   @@ [event |-> "mount", visible |-> hs.visible, before |-> 0, events |-> 0]

PageUnchanged ==
  UNCHANGED <<geo, compVars, sweepVars, springVars, stepVars, colorVars, texVars, cat,
              user, past>>

\* a scroll event: the visitor has scrolled the window to y
ScrollEvent(y) ==
  /\ page.events < MaxPageEvents
  /\ y # page.scrollY
  /\ LET hs == handleScroll(page, y)
     IN page' = [page EXCEPT !.scrollY = y, !.scrollProgress = hs.scrollProgress,
                             !.visible = hs.visible, !.before = page.scrollProgress,
                             !.event = "scroll", !.events = @ + 1]
  /\ PageUnchanged

\* a resize event: updateScreenWidth sets screenWidth to window.innerWidth
Resize(w, h) ==
  /\ page.events < MaxPageEvents
  /\ <<w, h>> # <<page.innerWidth, page.innerHeight>>
  /\ page' = [page EXCEPT !.innerWidth = w, !.innerHeight = h, !.screenWidth = w,
                          !.before = page.scrollProgress, !.event = "resize",
                          !.events = @ + 1]
  /\ PageUnchanged

NextPage ==
  \/ \E y \in ScrollYs : ScrollEvent(y)
  \/ \E w \in InnerWidths, h \in InnerHeights : Resize(w, h)

SpecPage == InitPage /\ [][NextPage]_vars

\* C24: scrollProgress is always within [0, 1] and horizontalPosition within
\* [startX, endX] = [-viewportWidth, 2 * viewportWidth], after any scroll and
\* resize events; a scroll event that finds the container partly visible
\* leaves scrollProgress unchanged.
C24_ProgressStaysInRange ==
  /\ page.scrollProgress >= 0
  /\ page.scrollProgress <= F
  /\ horizontalPosition(page) >= startX(page.screenWidth)
  /\ horizontalPosition(page) <= endX(page.screenWidth)
  /\ startX(page.screenWidth) = -viewportWidth(page.screenWidth)
  /\ endX(page.screenWidth) = 2 * viewportWidth(page.screenWidth)
  /\ (page.event = "scroll" /\ page.visible = "partly") =>
       page.scrollProgress = page.before

\* the cat is halfway, and a scroll event with the container partly visible
\* has left it there
C24_Witness ==
  /\ page.event = "scroll"
  /\ page.visible = "partly"
  /\ page.scrollProgress = F \div 2
  /\ page.before = F \div 2
  /\ horizontalPosition(page) > startX(page.screenWidth)

=============================================================================
